---- MODULE Spec2Model ----
(***************************************************************************)
(* Rule evaluation engine of luma-labs: the guardrail-enforcing driver     *)
(* (evaluate_rules / evaluate_rules_with_config), the group evaluator, the *)
(* field extractor and the 13-operator comparator, in the two variants of  *)
(* the repository: the POC crate ("poc") and the Shopify Function          *)
(* validator ("validator").                                                *)
(*                                                                         *)
(* Representation.  A Rust String is a sequence of one-character strings   *)
(* (<<"U","S">>), so that to_lowercase / contains / starts_with are        *)
(* computed.  An f64 is a record [w, t]: w whole units plus t ticks of     *)
(* 1e-10; f64::EPSILON (2.2e-16) is smaller than one tick.  A              *)
(* serde_json::Value is a tagged tuple <<"String", s>>, <<"Number", n>>,   *)
(* <<"Bool", b>>, <<"Array", a>>, <<"Null">>.  A FieldValue is a tagged    *)
(* tuple <<"String", s>>, <<"Number", n>>, <<"Bool", b>>,                  *)
(* <<"StringArray", a>>.  Option is <<"None">> or <<"Some", v>>.           *)
(***************************************************************************)
EXTENDS Integers, Sequences, FiniteSets, TLC

\* ------------------------------------------------------------------------
\* Strings
\* ------------------------------------------------------------------------

UpperChars ==
    <<"A","B","C","D","E","F","G","H","I","J","K","L","M",
      "N","O","P","Q","R","S","T","U","V","W","X","Y","Z">>

LowerChars ==
    <<"a","b","c","d","e","f","g","h","i","j","k","l","m",
      "n","o","p","q","r","s","t","u","v","w","x","y","z">>

Digits == {"0","1","2","3","4","5","6","7","8","9"}

Range(s) == {s[k] : k \in DOMAIN s}

\* char::to_lowercase on the ASCII letters the model uses
lower_char(c) ==
    IF \E k \in DOMAIN UpperChars : UpperChars[k] = c
    THEN LowerChars[CHOOSE k \in DOMAIN UpperChars : UpperChars[k] = c]
    ELSE c

\* str::to_lowercase
to_lowercase(s) == [k \in DOMAIN s |-> lower_char(s[k])]

\* str::starts_with
starts_with(s, p) ==
    /\ Len(p) <= Len(s)
    /\ SubSeq(s, 1, Len(p)) = p

\* str::ends_with
ends_with(s, p) ==
    /\ Len(p) <= Len(s)
    /\ SubSeq(s, Len(s) - Len(p) + 1, Len(s)) = p

\* str::contains (substring test)
contains(s, p) ==
    \E k \in 1..(Len(s) + 1) :
        /\ k + Len(p) - 1 <= Len(s)
        /\ SubSeq(s, k, k + Len(p) - 1) = p

\* ------------------------------------------------------------------------
\* Numbers (f64 on a grid of 1e-10)
\* ------------------------------------------------------------------------

Num(w, t) == [w |-> w, t |-> t]

num_lt(a, b) == a.w < b.w \/ (a.w = b.w /\ a.t < b.t)
num_le(a, b) == a.w < b.w \/ (a.w = b.w /\ a.t <= b.t)
num_gt(a, b) == num_lt(b, a)
num_ge(a, b) == num_le(b, a)

\* (a - b).abs() < f64::EPSILON: two grid values one tick (1e-10) or more
\* apart differ by more than EPSILON = 2.2e-16
abs_diff_lt_epsilon(a, b) == a.w = b.w /\ a.t = b.t

\* ------------------------------------------------------------------------
\* Option, serde_json::Value, FieldValue
\* ------------------------------------------------------------------------

None == <<"None">>
Some(v) == <<"Some", v>>

JString(s) == <<"String", s>>
JNumber(n) == <<"Number", n>>
JBool(b) == <<"Bool", b>>
JArray(a) == <<"Array", a>>
JNull == <<"Null">>

\* serde_json::Value::as_str
as_str(v) == IF v[1] = "String" THEN Some(v[2]) ELSE None

\* serde_json::Value::as_f64
as_f64(v) == IF v[1] = "Number" THEN Some(v[2]) ELSE None

FvString(s) == <<"String", s>>
FvNumber(n) == <<"Number", n>>
FvBool(b) == <<"Bool", b>>
FvStringArray(a) == <<"StringArray", a>>

\* ------------------------------------------------------------------------
\* Pattern Library (regex crate, as far as the shipped patterns need it)
\* ------------------------------------------------------------------------
\* A compiled Regex is [ci, bol, eol, wb, alts]: case-insensitive flag (?i),
\* anchors ^ and $, surrounding \b, and the alternatives, each a sequence of
\* tokens [neg, cs, q]: a (negated) character class with quantifier
\* "1", "?" or "*".

Letters == Range(UpperChars) \cup Range(LowerChars)
Space == {" "}
WordChars == Letters \cup Digits \cup {"_"}

One(cs) == [neg |-> FALSE, cs |-> cs, q |-> "1"]
Opt(cs) == [neg |-> FALSE, cs |-> cs, q |-> "?"]
Star(cs) == [neg |-> FALSE, cs |-> cs, q |-> "*"]
NotOne(cs) == [neg |-> TRUE, cs |-> cs, q |-> "1"]
NotStar(cs) == [neg |-> TRUE, cs |-> cs, q |-> "*"]
Lit(s) == [k \in DOMAIN s |-> One({s[k]})]
Rep(tok, n) == [k \in 1..n |-> tok]

token_hit(tok, ci, c) ==
    LET cc == IF ci THEN lower_char(c) ELSE c
        cls == IF ci THEN {lower_char(x) : x \in tok.cs} ELSE tok.cs
    IN  IF tok.neg THEN cc \notin cls ELSE cc \in cls

\* positions (index of the next unread character) at which toks[k..] can
\* finish when started at pos
RECURSIVE match_ends(_, _, _, _, _)
match_ends(toks, k, ci, s, pos) ==
    IF k > Len(toks) THEN {pos}
    ELSE LET tok == toks[k]
             hit == pos <= Len(s) /\ token_hit(tok, ci, s[pos])
         IN  CASE tok.q = "1" ->
                    IF hit THEN match_ends(toks, k + 1, ci, s, pos + 1) ELSE {}
               [] tok.q = "?" ->
                    match_ends(toks, k + 1, ci, s, pos) \cup
                    (IF hit THEN match_ends(toks, k + 1, ci, s, pos + 1) ELSE {})
               [] tok.q = "*" ->
                    match_ends(toks, k + 1, ci, s, pos) \cup
                    (IF hit THEN match_ends(toks, k, ci, s, pos + 1) ELSE {})

is_word_at(s, k) == k >= 1 /\ k <= Len(s) /\ s[k] \in WordChars

\* \b between s[pos-1] and s[pos]
word_boundary(s, pos) == is_word_at(s, pos - 1) # is_word_at(s, pos)

\* Regex::is_match
is_match(re, s) ==
    \E a \in DOMAIN re.alts :
        \E start \in 1..(Len(s) + 1) :
            /\ re.bol => start = 1
            /\ re.wb => word_boundary(s, start)
            /\ \E e \in match_ends(re.alts[a], 1, re.ci, s, start) :
                   /\ re.eol => e = Len(s) + 1
                   /\ re.wb => word_boundary(s, e)

PO_BOX ==
    [ci |-> TRUE, bol |-> FALSE, eol |-> FALSE, wb |-> TRUE,
     alts |-> << <<One({"p"}), Opt({"."}), Star(Space), One({"o"}), Opt({"."}),
                   Star(Space)>> \o Lit(<<"b","o","x">>),
                 Lit(<<"p","o","s","t">>) \o <<Star(Space)>> \o
                   Lit(<<"o","f","f","i","c","e">>) \o <<Star(Space)>> \o
                   Lit(<<"b","o","x">>) >>]

UK_POSTCODE ==
    [ci |-> TRUE, bol |-> TRUE, eol |-> TRUE, wb |-> FALSE,
     alts |-> << <<One(Letters), Opt(Letters), One(Digits),
                   Opt(Letters \cup Digits), Star(Space), One(Digits),
                   One(Letters), One(Letters)>> >>]

US_ZIP ==
    [ci |-> FALSE, bol |-> TRUE, eol |-> TRUE, wb |-> FALSE,
     alts |-> << Rep(One(Digits), 5),
                 Rep(One(Digits), 5) \o <<One({"-"})>> \o Rep(One(Digits), 4) >>]

CA_POSTAL ==
    [ci |-> TRUE, bol |-> TRUE, eol |-> TRUE, wb |-> FALSE,
     alts |-> << <<One(Letters), One(Digits), One(Letters), Star(Space),
                   One(Digits), One(Letters), One(Digits)>> >>]

EMAIL_BASIC ==
    [ci |-> FALSE, bol |-> TRUE, eol |-> TRUE, wb |-> FALSE,
     alts |-> << <<NotOne({" ", "@"}), NotStar({" ", "@"}), One({"@"}),
                   NotOne({" ", "@"}), NotStar({" ", "@"}), One({"."}),
                   NotOne({" ", "@"}), NotStar({" ", "@"})>> >>]

PhoneSep == {"-", ".", " "}
PhoneCountry == <<One({"+"}), One({"1"}), Opt(PhoneSep)>>
PhoneArea == <<Opt({"("})>> \o Rep(One(Digits), 3) \o <<Opt({")"}), Opt(PhoneSep)>>
PhoneLocal == Rep(One(Digits), 3) \o <<Opt(PhoneSep)>> \o Rep(One(Digits), 4)

US_PHONE ==
    [ci |-> FALSE, bol |-> TRUE, eol |-> TRUE, wb |-> FALSE,
     alts |-> << PhoneLocal,
                 PhoneArea \o PhoneLocal,
                 PhoneCountry \o PhoneLocal,
                 PhoneCountry \o PhoneArea \o PhoneLocal >>]

PROFANITY ==
    [ci |-> TRUE, bol |-> FALSE, eol |-> FALSE, wb |-> TRUE,
     alts |-> << Lit(<<"b","a","d","w","o","r","d","1">>),
                 Lit(<<"b","a","d","w","o","r","d","2">>),
                 Lit(<<"o","f","f","e","n","s","i","v","e">>) >>]

NUMERIC_ONLY ==
    [ci |-> FALSE, bol |-> TRUE, eol |-> TRUE, wb |-> FALSE,
     alts |-> << <<One(Digits), Star(Digits)>> >>]

\* the class [<>{}|\^~\[\]`]; backslash and backquote are written "bslash"
\* and "bquote"
SuspiciousSet == {"<", ">", "{", "}", "|", "bslash", "^", "~", "[", "]", "bquote"}

SUSPICIOUS_CHARS ==
    [ci |-> FALSE, bol |-> FALSE, eol |-> FALSE, wb |-> FALSE,
     alts |-> << <<One(SuspiciousSet)>> >>]

\* mutant of get_preset_pattern: the arm of the last listed name is missing
get_preset_pattern_without_last_arm(name) ==
    CASE name = "po_box" -> Some(PO_BOX)
      [] name = "uk_postcode" -> Some(UK_POSTCODE)
      [] name = "us_zip" -> Some(US_ZIP)
      [] name = "ca_postal" -> Some(CA_POSTAL)
      [] name = "email_basic" -> Some(EMAIL_BASIC)
      [] name = "us_phone" -> Some(US_PHONE)
      [] name = "profanity" -> Some(PROFANITY)
      [] name = "numeric_only" -> Some(NUMERIC_ONLY)
      [] OTHER -> None

\* get_preset_pattern: Option of a static Regex
get_preset_pattern(name) ==
    CASE name = "po_box" -> Some(PO_BOX)
      [] name = "uk_postcode" -> Some(UK_POSTCODE)
      [] name = "us_zip" -> Some(US_ZIP)
      [] name = "ca_postal" -> Some(CA_POSTAL)
      [] name = "email_basic" -> Some(EMAIL_BASIC)
      [] name = "us_phone" -> Some(US_PHONE)
      [] name = "profanity" -> Some(PROFANITY)
      [] name = "numeric_only" -> Some(NUMERIC_ONLY)
      [] name = "suspicious_chars" -> Some(SUSPICIOUS_CHARS)
      [] OTHER -> None

\* list_preset_patterns
list_preset_patterns ==
    <<"po_box", "uk_postcode", "us_zip", "ca_postal", "email_basic",
      "us_phone", "profanity", "numeric_only", "suspicious_chars">>

\* mutant of is_po_box: the form with a space between the letters is
\* missing
is_po_box_three_forms(text) ==
    LET lower == to_lowercase(text)
    IN  \/ contains(lower, <<"p","o"," ","b","o","x">>)
        \/ contains(lower, <<"p",".","o","."," ","b","o","x">>)
        \/ contains(lower, <<"p","o","s","t"," ","o","f","f","i","c","e"," ","b","o","x">>)

\* validator patterns.rs: is_po_box (regex-free)
is_po_box(text) ==
    LET lower == to_lowercase(text)
    IN  \/ contains(lower, <<"p","o"," ","b","o","x">>)
        \/ contains(lower, <<"p",".","o","."," ","b","o","x">>)
        \/ contains(lower, <<"p"," ","o"," ","b","o","x">>)
        \/ contains(lower, <<"p","o","s","t"," ","o","f","f","i","c","e"," ","b","o","x">>)

\* validator patterns.rs: check_preset
check_preset(name, text) ==
    CASE name = "po_box" -> is_po_box(text)
      [] OTHER -> FALSE

\* Regex::new on an ad hoc pattern.  The ad hoc patterns of the model are
\* literals (word characters and spaces, which compile to a case-sensitive
\* substring matcher) and malformed patterns such as "(" or "[", which fail
\* to compile.
LiteralChars == WordChars \cup Space

regex_new(pattern_str) ==
    IF \A k \in DOMAIN pattern_str : pattern_str[k] \in LiteralChars
    THEN <<"Ok", [ci |-> FALSE, bol |-> FALSE, eol |-> FALSE, wb |-> FALSE,
                  alts |-> <<Lit(pattern_str)>>]>>
    ELSE <<"Err">>

\* ------------------------------------------------------------------------
\* Field Value Extractor
\* ------------------------------------------------------------------------
\* A CartInput is [total, subtotal, quantity, total_weight, customer_tags,
\* shipping_address]; quantity is a u32 and becomes quantity as f64.

\* POC models.rs: CartInput::get_field.  The path is split on '.' and the
\* parts are matched as a slice, which accepts exactly the listed paths.
get_field(cart, path) ==
    CASE path = "cart.total" -> Some(FvNumber(cart.total))
      [] path = "cart.subtotal" -> Some(FvNumber(cart.subtotal))
      [] path = "cart.quantity" -> Some(FvNumber(Num(cart.quantity, 0)))
      [] path = "cart.total_weight" -> Some(FvNumber(cart.total_weight))
      [] path = "customer.tags" -> Some(FvStringArray(cart.customer_tags))
      [] path = "shipping_address.address1" -> Some(FvString(cart.shipping_address.address1))
      [] path = "shipping_address.address2" -> Some(FvString(cart.shipping_address.address2))
      [] path = "shipping_address.city" -> Some(FvString(cart.shipping_address.city))
      [] path = "shipping_address.province" -> Some(FvString(cart.shipping_address.province))
      [] path = "shipping_address.province_code" -> Some(FvString(cart.shipping_address.province_code))
      [] path = "shipping_address.country" -> Some(FvString(cart.shipping_address.country))
      [] path = "shipping_address.country_code" -> Some(FvString(cart.shipping_address.country_code))
      [] path = "shipping_address.zip" -> Some(FvString(cart.shipping_address.zip))
      [] OTHER -> None

\* validator evaluator.rs: get_field_value (its Address has no province and
\* no country)
get_field_value(field, cart) ==
    CASE field = "cart.total" -> Some(FvNumber(cart.total))
      [] field = "cart.subtotal" -> Some(FvNumber(cart.subtotal))
      [] field = "cart.quantity" -> Some(FvNumber(Num(cart.quantity, 0)))
      [] field = "cart.total_weight" -> Some(FvNumber(cart.total_weight))
      [] field = "customer.tags" -> Some(FvStringArray(cart.customer_tags))
      [] field = "shipping_address.address1" -> Some(FvString(cart.shipping_address.address1))
      [] field = "shipping_address.address2" -> Some(FvString(cart.shipping_address.address2))
      [] field = "shipping_address.city" -> Some(FvString(cart.shipping_address.city))
      [] field = "shipping_address.province_code" -> Some(FvString(cart.shipping_address.province_code))
      [] field = "shipping_address.country_code" -> Some(FvString(cart.shipping_address.country_code))
      [] field = "shipping_address.zip" -> Some(FvString(cart.shipping_address.zip))
      [] OTHER -> None

\* ------------------------------------------------------------------------
\* Comparator
\* ------------------------------------------------------------------------
\* ComparisonOperator
Operators ==
    {"Equals", "NotEquals", "GreaterThan", "GreaterThanOrEqual", "LessThan",
     "LessThanOrEqual", "Contains", "NotContains", "StartsWith", "EndsWith",
     "RegexMatch", "In", "NotIn"}

\* POC compare_equals: strings compared exactly
compare_equals(field_value, condition_value) ==
    CASE field_value[1] = "String" /\ condition_value[1] = "String" ->
            field_value[2] = condition_value[2]
      [] field_value[1] = "Number" /\ condition_value[1] = "Number" ->
            abs_diff_lt_epsilon(field_value[2], condition_value[2])
      [] field_value[1] = "Bool" /\ condition_value[1] = "Bool" ->
            field_value[2] = condition_value[2]
      [] OTHER -> FALSE

\* validator compare_equals: strings compared in lower case, no Bool arm
compare_equals_v(field_value, condition_value) ==
    CASE field_value[1] = "String" /\ condition_value[1] = "String" ->
            to_lowercase(field_value[2]) = to_lowercase(condition_value[2])
      [] field_value[1] = "Number" /\ condition_value[1] = "Number" ->
            abs_diff_lt_epsilon(field_value[2], condition_value[2])
      [] OTHER -> FALSE

\* the closure handed to compare_numeric, named by its comparison
apply_cmp(cmp, a, b) ==
    CASE cmp = ">" -> num_gt(a, b)
      [] cmp = ">=" -> num_ge(a, b)
      [] cmp = "<" -> num_lt(a, b)
      [] cmp = "<=" -> num_le(a, b)

compare_numeric(field_value, condition_value, cmp) ==
    IF field_value[1] = "Number"
    THEN LET cv == as_f64(condition_value)
         IN  IF cv = None THEN FALSE ELSE apply_cmp(cmp, field_value[2], cv[2])
    ELSE FALSE

\* mutant of compare_contains: an element of a string list matches when the
\* literal is a substring of it
compare_contains_substring_elements(field_value, condition_value) ==
    CASE field_value[1] = "String" /\ condition_value[1] = "String" ->
            contains(to_lowercase(field_value[2]), to_lowercase(condition_value[2]))
      [] field_value[1] = "StringArray" /\ condition_value[1] = "String" ->
            \E k \in DOMAIN field_value[2] :
                contains(to_lowercase(field_value[2][k]), to_lowercase(condition_value[2]))
      [] OTHER -> FALSE

compare_contains(field_value, condition_value) ==
    CASE field_value[1] = "String" /\ condition_value[1] = "String" ->
            contains(to_lowercase(field_value[2]), to_lowercase(condition_value[2]))
      [] field_value[1] = "StringArray" /\ condition_value[1] = "String" ->
            \E k \in DOMAIN field_value[2] :
                to_lowercase(field_value[2][k]) = to_lowercase(condition_value[2])
      [] OTHER -> FALSE

compare_starts_with(field_value, condition_value) ==
    CASE field_value[1] = "String" /\ condition_value[1] = "String" ->
            starts_with(to_lowercase(field_value[2]), to_lowercase(condition_value[2]))
      [] OTHER -> FALSE

compare_ends_with(field_value, condition_value) ==
    CASE field_value[1] = "String" /\ condition_value[1] = "String" ->
            ends_with(to_lowercase(field_value[2]), to_lowercase(condition_value[2]))
      [] OTHER -> FALSE

\* POC compare_regex: a preset name that is not registered falls through to
\* the ad hoc compilation of the same literal
compare_regex(field_value, condition_value, is_preset) ==
    LET pattern_str == as_str(condition_value)
    IN  IF pattern_str = None THEN FALSE
        ELSE IF field_value[1] # "String" THEN FALSE
        ELSE IF is_preset /\ get_preset_pattern(pattern_str[2]) # None
             THEN is_match(get_preset_pattern(pattern_str[2])[2], field_value[2])
        ELSE LET re == regex_new(pattern_str[2])
             IN  IF re[1] = "Ok" THEN is_match(re[2], field_value[2]) ELSE FALSE

\* validator compare_regex: presets through check_preset, anything else is a
\* case-insensitive substring test
compare_regex_v(field_value, condition_value, is_preset) ==
    LET pattern_str == as_str(condition_value)
    IN  IF pattern_str = None THEN FALSE
        ELSE IF field_value[1] # "String" THEN FALSE
        ELSE IF is_preset THEN check_preset(pattern_str[2], field_value[2])
        ELSE contains(to_lowercase(field_value[2]), to_lowercase(pattern_str[2]))

compare_in(field_value, condition_value) ==
    IF condition_value[1] = "Array"
    THEN LET arr == condition_value[2]
         IN  CASE field_value[1] = "String" ->
                    \E k \in DOMAIN arr :
                        /\ as_str(arr[k]) # None
                        /\ to_lowercase(as_str(arr[k])[2]) = to_lowercase(field_value[2])
               [] field_value[1] = "Number" ->
                    \E k \in DOMAIN arr :
                        /\ as_f64(arr[k]) # None
                        /\ abs_diff_lt_epsilon(field_value[2], as_f64(arr[k])[2])
               [] OTHER -> FALSE
    ELSE FALSE

\* mutant of compare: NotIn matches only against an array literal
compare_not_in_needs_array(variant, field_value, operator, condition_value, is_preset) ==
    CASE operator = "Equals" ->
            IF variant = "poc" THEN compare_equals(field_value, condition_value)
            ELSE compare_equals_v(field_value, condition_value)
      [] operator = "NotEquals" ->
            IF variant = "poc" THEN ~compare_equals(field_value, condition_value)
            ELSE ~compare_equals_v(field_value, condition_value)
      [] operator = "GreaterThan" -> compare_numeric(field_value, condition_value, ">")
      [] operator = "GreaterThanOrEqual" -> compare_numeric(field_value, condition_value, ">=")
      [] operator = "LessThan" -> compare_numeric(field_value, condition_value, "<")
      [] operator = "LessThanOrEqual" -> compare_numeric(field_value, condition_value, "<=")
      [] operator = "Contains" -> compare_contains(field_value, condition_value)
      [] operator = "NotContains" -> ~compare_contains(field_value, condition_value)
      [] operator = "StartsWith" -> compare_starts_with(field_value, condition_value)
      [] operator = "EndsWith" -> compare_ends_with(field_value, condition_value)
      [] operator = "RegexMatch" ->
            IF variant = "poc" THEN compare_regex(field_value, condition_value, is_preset)
            ELSE compare_regex_v(field_value, condition_value, is_preset)
      [] operator = "In" -> compare_in(field_value, condition_value)
      [] operator = "NotIn" ->
            condition_value[1] = "Array" /\ ~compare_in(field_value, condition_value)

\* compare: the dispatch on the operator, the same in both variants; only
\* compare_equals and compare_regex differ
compare(variant, field_value, operator, condition_value, is_preset) ==
    CASE operator = "Equals" ->
            IF variant = "poc" THEN compare_equals(field_value, condition_value)
            ELSE compare_equals_v(field_value, condition_value)
      [] operator = "NotEquals" ->
            IF variant = "poc" THEN ~compare_equals(field_value, condition_value)
            ELSE ~compare_equals_v(field_value, condition_value)
      [] operator = "GreaterThan" -> compare_numeric(field_value, condition_value, ">")
      [] operator = "GreaterThanOrEqual" -> compare_numeric(field_value, condition_value, ">=")
      [] operator = "LessThan" -> compare_numeric(field_value, condition_value, "<")
      [] operator = "LessThanOrEqual" -> compare_numeric(field_value, condition_value, "<=")
      [] operator = "Contains" -> compare_contains(field_value, condition_value)
      [] operator = "NotContains" -> ~compare_contains(field_value, condition_value)
      [] operator = "StartsWith" -> compare_starts_with(field_value, condition_value)
      [] operator = "EndsWith" -> compare_ends_with(field_value, condition_value)
      [] operator = "RegexMatch" ->
            IF variant = "poc" THEN compare_regex(field_value, condition_value, is_preset)
            ELSE compare_regex_v(field_value, condition_value, is_preset)
      [] operator = "In" -> compare_in(field_value, condition_value)
      [] operator = "NotIn" -> ~compare_in(field_value, condition_value)

\* ------------------------------------------------------------------------
\* Group Evaluator
\* ------------------------------------------------------------------------
\* A ConditionGroup is [operator, criteria]; a Criterion is
\* <<"Condition", c>> with c = [field, operator, value, is_preset], or
\* <<"Group", g>>.

\* mutant of resolve: a path that is not known resolves to an empty string
\* instead of absence
resolve_unknown_as_empty(variant, cart, field) ==
    LET r == IF variant = "poc" THEN get_field(cart, field) ELSE get_field_value(field, cart)
    IN  IF r = None THEN Some(FvString(<<>>)) ELSE r

\* the field lookup of evaluate_condition in each variant
resolve(variant, cart, field) ==
    IF variant = "poc" THEN get_field(cart, field) ELSE get_field_value(field, cart)

evaluate_condition(variant, condition, cart) ==
    LET field_value == resolve(variant, cart, condition.field)
    IN  IF field_value = None THEN FALSE
        ELSE compare(variant, field_value[2], condition.operator, condition.value,
                     condition.is_preset)

RECURSIVE evaluate_group(_, _, _)
evaluate_criterion(variant, criterion, cart) ==
    IF criterion[1] = "Condition"
    THEN evaluate_condition(variant, criterion[2], cart)
    ELSE evaluate_group(variant, criterion[2], cart)

evaluate_group(variant, group, cart) ==
    IF group.operator = "And"
    THEN \A k \in DOMAIN group.criteria : evaluate_criterion(variant, group.criteria[k], cart)
    ELSE \E k \in DOMAIN group.criteria : evaluate_criterion(variant, group.criteria[k], cart)

evaluate_rule(variant, rule, cart) == evaluate_group(variant, rule.conditions, cart)

RECURSIVE rule_uses_regex(_)
rule_uses_regex(group) ==
    \E k \in DOMAIN group.criteria :
        IF group.criteria[k][1] = "Condition"
        THEN group.criteria[k][2].operator = "RegexMatch"
        ELSE rule_uses_regex(group.criteria[k][2])

\* ------------------------------------------------------------------------
\* Bounds and inputs
\* ------------------------------------------------------------------------

\* longest configuration enumerated exhaustively
MaxLen == 3
\* largest caller-supplied max_rules / max_regex_rules / time_budget_ms
MaxMaxRules == 2
MaxMaxRegex == 1
MaxBudget == 1
\* the clock stops advancing at MaxElapsed milliseconds
MaxElapsed == 2

\* validator evaluator.rs
MAX_RULES == 100
MAX_REGEX_RULES == 30

\* EvaluatorConfig::default()
DefaultEvaluatorConfig ==
    [max_rules |-> 100, max_regex_rules |-> 30, time_budget_ms |-> 4]

\* byte strings used by the inputs
S_US == <<"U","S">>
S_CA == <<"C","A">>
S_PoBox123 == <<"P","O"," ","B","o","x"," ","1","2","3">>
S_MainStreet == <<"1","2","3"," ","M","a","i","n"," ","S","t","r","e","e","t">>
S_VIP == <<"V","I","P">>
S_Empty == <<>>

Address(address1, country_code) ==
    [address1 |-> address1, address2 |-> S_Empty, city |-> S_Empty,
     province |-> S_Empty, province_code |-> S_Empty, country |-> S_Empty,
     country_code |-> country_code, zip |-> S_Empty]

Cart(total, quantity, tags, address) ==
    [total |-> total, subtotal |-> total, quantity |-> quantity,
     total_weight |-> Num(0, 0), customer_tags |-> tags,
     shipping_address |-> address]

CartHigh == Cart(Num(150, 0), 10, <<S_VIP>>, Address(S_PoBox123, S_US))
CartLowPoBox == Cart(Num(50, 0), 1, <<>>, Address(S_PoBox123, S_US))
CartLowPlain == Cart(Num(50, 0), 1, <<>>, Address(S_MainStreet, S_CA))

Carts == {CartHigh, CartLowPoBox, CartLowPlain}

Cond(field, operator, value, is_preset) ==
    <<"Condition", [field |-> field, operator |-> operator, value |-> value,
                    is_preset |-> is_preset]>>

Group(operator, criteria) == [operator |-> operator, criteria |-> criteria]

TotalOver100 == Cond("cart.total", "GreaterThan", JNumber(Num(100, 0)), FALSE)
CountryIsUS == Cond("shipping_address.country_code", "Equals", JString(S_US), FALSE)
Address1IsPoBox ==
    Cond("shipping_address.address1", "RegexMatch",
         JString(<<"p","o","_","b","o","x">>), TRUE)

\* rule templates: [enabled, error_message, conditions]
TplTotal ==
    [enabled |-> TRUE, error_message |-> "Total too high",
     conditions |-> Group("And", <<TotalOver100>>)]
TplPoBox ==
    [enabled |-> TRUE, error_message |-> "We don't ship to PO Boxes",
     conditions |-> Group("And", <<Address1IsPoBox>>)]
TplNested ==
    [enabled |-> TRUE, error_message |-> "Blocked",
     conditions |-> Group("Or", <<TotalOver100,
                                  <<"Group", Group("And", <<CountryIsUS, Address1IsPoBox>>)>> >>)]
TplDisabledPoBox ==
    [enabled |-> FALSE, error_message |-> "Disabled",
     conditions |-> Group("And", <<Address1IsPoBox>>)]

Templates == {TplTotal, TplPoBox, TplNested, TplDisabledPoBox}

\* the Rule built from a template at position k of a configuration
MkRule(tpl, k) ==
    [id |-> ToString(k), name |-> "rule", complexity |-> 1,
     enabled |-> tpl.enabled, error_message |-> tpl.error_message,
     conditions |-> tpl.conditions]

MkConfig(tpls) == [k \in DOMAIN tpls |-> MkRule(tpls[k], k)]

TplSeqs(n) == [1..n -> Templates]

\* every configuration of at most MaxLen rules
ShortConfigs == UNION {{MkConfig(t) : t \in TplSeqs(n)} : n \in 0..MaxLen}

\* the pattern p repeated cyclically up to length n
Cyclic(p, n) == MkConfig([k \in 1..n |-> p[((k - 1) % Len(p)) + 1]])

Patterns == TplSeqs(1) \cup TplSeqs(2)

\* configurations of N + 5 rules for the max_rules values N of the model
RunConfigs(N) == {Cyclic(p, N + 5) : p \in Patterns}

\* configurations longer than the production limits: one template
\* repeated, or the regex rule alternating with another template
LongConfigs ==
    {Cyclic(p, MAX_RULES + 5) : p \in TplSeqs(1) \cup {q \in TplSeqs(2) : q[1] = TplPoBox}}

\* caller-supplied guardrails
EvalConfigs ==
    [max_rules : 0..MaxMaxRules, max_regex_rules : 0..MaxMaxRegex,
     time_budget_ms : 0..MaxBudget]

ValidatorGuardrails ==
    [max_rules |-> MAX_RULES, max_regex_rules |-> MAX_REGEX_RULES, time_budget_ms |-> 0]

\* one pass: which variant runs, on which configuration, under which
\* guardrails; the configurations of MaxLen rules run under the largest
\* rule cap only
Scenarios ==
    {[variant |-> "poc", config |-> p[1], eval_config |-> p[2]] :
        p \in {q \in ShortConfigs \X EvalConfigs :
                  Len(q[1]) < MaxLen \/ q[2].max_rules = MaxMaxRules}}
    \cup {[variant |-> "poc", config |-> c, eval_config |-> e] :
        c \in UNION {RunConfigs(N) : N \in 0..MaxMaxRules},
        e \in {x \in EvalConfigs : x.max_regex_rules = MaxMaxRegex /\ x.time_budget_ms = MaxBudget}}
    \cup {[variant |-> "poc", config |-> c, eval_config |-> DefaultEvaluatorConfig] :
        c \in ShortConfigs \cup LongConfigs}
    \cup {[variant |-> "validator", config |-> c, eval_config |-> ValidatorGuardrails] :
        c \in ShortConfigs \cup LongConfigs}

\* ------------------------------------------------------------------------
\* Guardrail-enforcing driver: evaluate_rules_with_config (poc) and
\* evaluate_rules (validator)
\* ------------------------------------------------------------------------

VARIABLES
    variant,          \* "poc" or "validator": whose driver runs this pass
    config,           \* config.rules
    cart,             \* the CartInput
    eval_config,      \* the guardrails in force
    pc,               \* position in the driver
    idx,              \* index of the rule the for loop is at
    errors,           \* Vec<ValidationError>
    rules_evaluated,
    regex_count,
    elapsed,          \* start.elapsed().as_millis()
    result,           \* the returned EvaluationResult, None before the return
    evaluated,        \* history: indices of the rules passed to evaluate_rule
    skipped,          \* history: indices of the rules skipped by the regex quota
    polls,            \* history of the time checks: how many were made (n), and
                      \* the rule index (idx) and elapsed read (read) of the last
    leaf,             \* state of a single evaluate_condition call (SpecLeaf)
    walk,             \* the recursion of evaluate_group / rule_uses_regex over
                      \* a condition tree (SpecTrees)
    presets,          \* the lazy_static cells of patterns.rs (SpecRegistry)
    callers,          \* the threads that look presets up (SpecRegistry)
    metafield,        \* input.shop.metafield of the validator (SpecFunction)
    input_cart,       \* input.cart of the validator (SpecFunction)
    output            \* the Output of process_input, None before it returns

vars ==
    <<variant, config, cart, eval_config, pc, idx, errors, rules_evaluated,
      regex_count, elapsed, result, evaluated, skipped, polls, leaf, walk,
      presets, callers, metafield, input_cart, output>>

inputs == <<variant, config, cart, eval_config>>
history == <<evaluated, skipped, polls>>
statics == <<presets, callers>>
host == <<metafield, input_cart, output>>

LeafIdle == [pc |-> "idle"]

\* a lazy_static cell before its first dereference: no Regex yet
PresetsUninit ==
    [n \in Range(list_preset_patterns) |-> [state |-> "uninit", regex |-> None, compiled |-> 0]]

\* walk = [fn, stack, ret, visited]: the recursive function that runs, its
\* call stack (one frame [group, k] per active call, k the index of the
\* criterion its iterator is at), the value a finished call hands back to
\* its caller (an Option), and the leaves tested so far, in order.
WalkIdle == [fn |-> "idle", stack |-> <<>>, ret |-> None, visited |-> <<>>]

Init ==
    /\ \E sc \in Scenarios :
        /\ variant = sc.variant
        /\ config = sc.config
        /\ eval_config = sc.eval_config
    /\ cart \in Carts
    /\ pc = "for"
    /\ idx = 1
    /\ errors = <<>>
    /\ rules_evaluated = 0
    /\ regex_count = 0
    /\ elapsed = 0
    /\ result = None
    /\ evaluated = <<>>
    /\ skipped = <<>>
    /\ polls = [n |-> 0, idx |-> 0, read |-> 0]
    /\ leaf = LeafIdle
    /\ walk = WalkIdle
    /\ presets = PresetsUninit
    /\ callers = <<>>
    /\ metafield = None
    /\ input_cart = None
    /\ output = None

ValidationError(rule) == [rule_id |-> rule.id, message |-> rule.error_message]

\* wall-clock time passes while the poc driver runs (the validator reads no
\* clock); the clock of the model stops one millisecond past the budget
Tick ==
    /\ variant = "poc"
    /\ pc \notin {"done"}
    /\ elapsed < MaxElapsed
    /\ elapsed <= eval_config.time_budget_ms
    /\ elapsed' = elapsed + 1
    /\ UNCHANGED <<inputs, statics, host, pc, idx, errors, rules_evaluated, regex_count, result,
                   history, leaf, walk>>

\* for rule in &config.rules: the iterator is exhausted
ForEnd ==
    /\ pc = "for"
    /\ idx > Len(config)
    /\ pc' = "return"
    /\ UNCHANGED <<inputs, statics, host, idx, errors, rules_evaluated, regex_count, elapsed,
                   result, history, leaf, walk>>

\* mutant of GuardMaxRules: the limit compared with > instead of >=
GuardMaxRules_off_by_one ==
    /\ pc = "for"
    /\ idx <= Len(config)
    /\ pc' = IF rules_evaluated > eval_config.max_rules THEN "return" ELSE "enabled"
    /\ UNCHANGED <<inputs, statics, host, idx, errors, rules_evaluated, regex_count, elapsed,
                   result, history, leaf, walk>>

\* Guardrail 1: if rules_evaluated >= max_rules { break; }
GuardMaxRules ==
    /\ pc = "for"
    /\ idx <= Len(config)
    /\ pc' = IF rules_evaluated >= eval_config.max_rules THEN "return" ELSE "enabled"
    /\ UNCHANGED <<inputs, statics, host, idx, errors, rules_evaluated, regex_count, elapsed,
                   result, history, leaf, walk>>

\* mutant of CheckEnabled: the enabled test placed after the regex
\* accounting, so that a disabled regex rule uses up quota
CheckEnabled_after_regex_count ==
    /\ pc = "enabled"
    /\ IF ~config[idx].enabled
       THEN /\ idx' = idx + 1
            /\ pc' = "for"
            /\ regex_count' = IF rule_uses_regex(config[idx].conditions)
                              THEN regex_count + 1 ELSE regex_count
       ELSE /\ idx' = idx
            /\ pc' = "regex"
            /\ regex_count' = regex_count
    /\ UNCHANGED <<inputs, statics, host, errors, rules_evaluated, elapsed, result, history, leaf, walk>>

\* if !rule.enabled { continue; }
CheckEnabled ==
    /\ pc = "enabled"
    /\ IF ~config[idx].enabled
       THEN /\ idx' = idx + 1
            /\ pc' = "for"
       ELSE /\ idx' = idx
            /\ pc' = "regex"
    /\ UNCHANGED <<inputs, statics, host, errors, rules_evaluated, regex_count, elapsed, result,
                   history, leaf, walk>>

\* mutant of GuardRegex: break instead of continue once the quota is used up
GuardRegex_breaks ==
    /\ pc = "regex"
    /\ IF rule_uses_regex(config[idx].conditions)
       THEN /\ regex_count' = regex_count + 1
            /\ IF regex_count + 1 > eval_config.max_regex_rules
               THEN /\ idx' = idx
                    /\ pc' = "return"
                    /\ skipped' = Append(skipped, idx)
               ELSE /\ idx' = idx
                    /\ pc' = IF variant = "poc" THEN "time" ELSE "evaluate"
                    /\ skipped' = skipped
       ELSE /\ regex_count' = regex_count
            /\ idx' = idx
            /\ pc' = IF variant = "poc" THEN "time" ELSE "evaluate"
            /\ skipped' = skipped
    /\ UNCHANGED <<inputs, statics, host, errors, rules_evaluated, elapsed, result, evaluated,
                   polls, leaf, walk>>

\* Guardrail 2: a regex-using rule bumps regex_count and is skipped with
\* continue once the count exceeds max_regex_rules
GuardRegex ==
    /\ pc = "regex"
    /\ IF rule_uses_regex(config[idx].conditions)
       THEN /\ regex_count' = regex_count + 1
            /\ IF regex_count + 1 > eval_config.max_regex_rules
               THEN /\ idx' = idx + 1
                    /\ pc' = "for"
                    /\ skipped' = Append(skipped, idx)
               ELSE /\ idx' = idx
                    /\ pc' = IF variant = "poc" THEN "time" ELSE "evaluate"
                    /\ skipped' = skipped
       ELSE /\ regex_count' = regex_count
            /\ idx' = idx
            /\ pc' = IF variant = "poc" THEN "time" ELSE "evaluate"
            /\ skipped' = skipped
    /\ UNCHANGED <<inputs, statics, host, errors, rules_evaluated, elapsed, result, evaluated,
                   polls, leaf, walk>>

\* mutant of GuardTime: the overrun is noticed but the loop is not left
GuardTime_no_break ==
    /\ pc = "time"
    /\ polls' = [n |-> polls.n + 1, idx |-> idx, read |-> elapsed]
    /\ pc' = "evaluate"
    /\ UNCHANGED <<inputs, statics, host, idx, errors, rules_evaluated, regex_count, elapsed,
                   result, evaluated, skipped, leaf, walk>>

\* Guardrail 3 (poc only): if start.elapsed().as_millis() > time_budget_ms
\* { break; }
GuardTime ==
    /\ pc = "time"
    /\ polls' = [n |-> polls.n + 1, idx |-> idx, read |-> elapsed]
    /\ pc' = IF elapsed > eval_config.time_budget_ms THEN "return" ELSE "evaluate"
    /\ UNCHANGED <<inputs, statics, host, idx, errors, rules_evaluated, regex_count, elapsed,
                   result, evaluated, skipped, leaf, walk>>

\* mutant of EvaluateRule: rules_evaluated counts only the rules that match
EvaluateRule_counts_matches ==
    /\ pc = "evaluate"
    /\ errors' = IF evaluate_rule(variant, config[idx], cart)
                 THEN Append(errors, [rule_id |-> config[idx].id,
                                      message |-> config[idx].error_message])
                 ELSE errors
    /\ rules_evaluated' = IF evaluate_rule(variant, config[idx], cart)
                          THEN rules_evaluated + 1 ELSE rules_evaluated
    /\ evaluated' = Append(evaluated, idx)
    /\ idx' = idx + 1
    /\ pc' = "for"
    /\ UNCHANGED <<inputs, statics, host, regex_count, elapsed, result, skipped, polls, leaf, walk>>

\* mutant of EvaluateRule: the error carries the rule's name in place of
\* its error_message
EvaluateRule_wrong_message ==
    /\ pc = "evaluate"
    /\ errors' = IF evaluate_rule(variant, config[idx], cart)
                 THEN Append(errors, [rule_id |-> config[idx].id,
                                      message |-> config[idx].name])
                 ELSE errors
    /\ rules_evaluated' = rules_evaluated + 1
    /\ evaluated' = Append(evaluated, idx)
    /\ idx' = idx + 1
    /\ pc' = "for"
    /\ UNCHANGED <<inputs, statics, host, regex_count, elapsed, result, skipped, polls, leaf, walk>>

\* mutant of EvaluateRule: the error takes the message out of the rule in
\* place of cloning it
EvaluateRule_moves_message ==
    /\ pc = "evaluate"
    /\ errors' = IF evaluate_rule(variant, config[idx], cart)
                 THEN Append(errors, ValidationError(config[idx]))
                 ELSE errors
    /\ config' = IF evaluate_rule(variant, config[idx], cart)
                 THEN [config EXCEPT ![idx].error_message = ""]
                 ELSE config
    /\ rules_evaluated' = rules_evaluated + 1
    /\ evaluated' = Append(evaluated, idx)
    /\ idx' = idx + 1
    /\ pc' = "for"
    /\ UNCHANGED <<variant, cart, eval_config, statics, host, regex_count, elapsed,
                   result, skipped, polls, leaf, walk>>

\* mutant of EvaluateRule: a match is reported ahead of the errors found
\* before it
EvaluateRule_prepends ==
    /\ pc = "evaluate"
    /\ errors' = IF evaluate_rule(variant, config[idx], cart)
                 THEN <<ValidationError(config[idx])>> \o errors
                 ELSE errors
    /\ rules_evaluated' = rules_evaluated + 1
    /\ evaluated' = Append(evaluated, idx)
    /\ idx' = idx + 1
    /\ pc' = "for"
    /\ UNCHANGED <<inputs, statics, host, regex_count, elapsed, result, skipped, polls,
                   leaf, walk>>

\* mutant of EvaluateRule: a match is reported only while the clock still
\* reads zero
EvaluateRule_time_dependent ==
    /\ pc = "evaluate"
    /\ errors' = IF evaluate_rule(variant, config[idx], cart) /\ elapsed = 0
                 THEN Append(errors, [rule_id |-> config[idx].id,
                                      message |-> config[idx].error_message])
                 ELSE errors
    /\ rules_evaluated' = rules_evaluated + 1
    /\ evaluated' = Append(evaluated, idx)
    /\ idx' = idx + 1
    /\ pc' = "for"
    /\ UNCHANGED <<inputs, statics, host, regex_count, elapsed, result, skipped, polls, leaf, walk>>

\* if evaluate_rule(rule, cart) { errors.push(..) }  rules_evaluated += 1
EvaluateRule ==
    /\ pc = "evaluate"
    /\ errors' = IF evaluate_rule(variant, config[idx], cart)
                 THEN Append(errors, ValidationError(config[idx]))
                 ELSE errors
    /\ rules_evaluated' = rules_evaluated + 1
    /\ evaluated' = Append(evaluated, idx)
    /\ idx' = idx + 1
    /\ pc' = "for"
    /\ UNCHANGED <<inputs, statics, host, regex_count, elapsed, result, skipped, polls, leaf, walk>>

\* EvaluationResult { errors, rules_evaluated, execution_time_us }
Return ==
    /\ pc = "return"
    /\ result' = Some([errors |-> errors, rules_evaluated |-> rules_evaluated,
                       execution_time_ms |-> IF variant = "poc" THEN elapsed ELSE 0])
    /\ pc' = "done"
    /\ UNCHANGED <<inputs, statics, host, idx, errors, rules_evaluated, regex_count, elapsed,
                   history, leaf, walk>>

Next ==
    \/ Tick
    \/ ForEnd
    \/ GuardMaxRules
    \/ CheckEnabled
    \/ GuardRegex
    \/ GuardTime
    \/ EvaluateRule
    \/ Return

Spec == Init /\ [][Next]_vars

\* ------------------------------------------------------------------------
\* The driver as a function of its inputs
\* ------------------------------------------------------------------------
\* The same loop run to completion.  The clock enters only through the
\* outcome of the time checks: the first ok_polls checks read a time within
\* the budget and the next one does not (the validator makes no check).

\* one iteration of the for loop on rule k; acc.returned is set by a break,
\* acc.visited is the last rule the loop took from the iterator, and
\* acc.evaluated and acc.skipped list the rules passed to evaluate_rule and
\* those the regex quota skipped
pass_step(v, rules, crt, cfg, ok_polls, k, acc) ==
    IF acc.returned THEN acc
    ELSE IF acc.rules_evaluated >= cfg.max_rules
    THEN [acc EXCEPT !.returned = TRUE, !.visited = k]
    ELSE IF ~rules[k].enabled THEN [acc EXCEPT !.visited = k]
    ELSE LET uses == rule_uses_regex(rules[k].conditions)
             rc == IF uses THEN acc.regex_count + 1 ELSE acc.regex_count
         IN  IF uses /\ rc > cfg.max_regex_rules
             THEN [acc EXCEPT !.regex_count = rc, !.visited = k,
                              !.skipped = Append(acc.skipped, k)]
             ELSE IF v = "poc" /\ acc.polls >= ok_polls
             THEN [acc EXCEPT !.regex_count = rc, !.returned = TRUE, !.visited = k]
             ELSE [errors |-> IF evaluate_rule(v, rules[k], crt)
                              THEN Append(acc.errors, ValidationError(rules[k]))
                              ELSE acc.errors,
                   rules_evaluated |-> acc.rules_evaluated + 1,
                   regex_count |-> rc,
                   polls |-> acc.polls + 1,
                   returned |-> FALSE,
                   visited |-> k,
                   evaluated |-> Append(acc.evaluated, k),
                   skipped |-> acc.skipped]

\* the iterations on rules lo..hi in order, the range halved at each call;
\* after a break no further rule is visited
RECURSIVE pass_loop(_, _, _, _, _, _, _, _)
pass_loop(v, rules, crt, cfg, ok_polls, lo, hi, acc) ==
    IF lo > hi THEN acc
    ELSE IF lo = hi THEN pass_step(v, rules, crt, cfg, ok_polls, lo, acc)
    ELSE LET mid == (lo + hi) \div 2
             left == pass_loop(v, rules, crt, cfg, ok_polls, lo, mid, acc)
         IN  IF left.returned THEN left
             ELSE pass_loop(v, rules, crt, cfg, ok_polls, mid + 1, hi, left)

\* the whole pass: the locals of the driver when it returns
pass(v, rules, crt, cfg, ok_polls) ==
    pass_loop(v, rules, crt, cfg, ok_polls, 1, Len(rules),
              [errors |-> <<>>, rules_evaluated |-> 0, regex_count |-> 0, polls |-> 0,
               returned |-> FALSE, visited |-> 0, evaluated |-> <<>>, skipped |-> <<>>])

evaluate_rules_with_config(v, rules, crt, cfg, ok_polls) ==
    LET acc == pass(v, rules, crt, cfg, ok_polls)
    IN  [errors |-> acc.errors, rules_evaluated |-> acc.rules_evaluated]

\* mutant of evaluate_rules: the validator runs under a regex quota of 10
evaluate_rules_quota_10(rules, crt) ==
    pass("validator", rules, crt,
         [max_rules |-> MAX_RULES, max_regex_rules |-> 10, time_budget_ms |-> 0], 0)

\* the validator's evaluate_rules, with its hard-coded limits
evaluate_rules(rules, crt) == pass("validator", rules, crt, ValidatorGuardrails, 0)

\* the poc's evaluate_rules: the default guardrails; ok_polls as above
evaluate_rules_poc(rules, crt, ok_polls) ==
    pass("poc", rules, crt, DefaultEvaluatorConfig, ok_polls)

\* ------------------------------------------------------------------------
\* Vocabulary of the properties
\* ------------------------------------------------------------------------

Done == pc = "done"

\* a time check read an elapsed time above the budget
TimedOut == polls.n > 0 /\ polls.read > eval_config.time_budget_ms

\* the number of time checks that passed in this pass (no bound when none
\* failed)
OkPolls == IF TimedOut THEN polls.n - 1 ELSE Len(config) + 1

\* the returned errors and rules_evaluated
Returned == [errors |-> result[2].errors, rules_evaluated |-> result[2].rules_evaluated]

UsesRegex(k) == rule_uses_regex(config[k].conditions)

\* how many enabled regex-using rules stand at positions 1..k
RegexRank(k) == Cardinality({j \in 1..k : config[j].enabled /\ UsesRegex(j)})

EnabledCount == Cardinality({j \in DOMAIN config : config[j].enabled})

\* the members of the index set S in increasing order
RECURSIVE Ascending(_)
Ascending(S) ==
    IF S = {} THEN <<>>
    ELSE LET m == CHOOSE x \in S : \A y \in S : x <= y
         IN  <<m>> \o Ascending(S \ {m})

\* ValidationErrors of the rules at the given indices that match the cart
RECURSIVE ErrorsOf(_)
ErrorsOf(ks) ==
    IF ks = <<>> THEN <<>>
    ELSE (IF evaluate_rule(variant, config[Head(ks)], cart)
          THEN <<ValidationError(config[Head(ks)])>> ELSE <<>>) \o ErrorsOf(Tail(ks))

\* ------------------------------------------------------------------------
\* Properties of the driver
\* ------------------------------------------------------------------------

\* C1: rules_evaluated never exceeds max_rules, and from the moment it has
\* reached max_rules no rule is evaluated, no error is appended and the
\* counter stays: the driver is at the loop head or past it, and its next
\* step from the loop head leaves the loop.
C1_MaxRulesStop ==
    /\ [](rules_evaluated <= eval_config.max_rules)
    /\ [][rules_evaluated >= eval_config.max_rules =>
            /\ evaluated' = evaluated
            /\ errors' = errors
            /\ rules_evaluated' = rules_evaluated
            /\ pc \in {"for", "return", "done"}
            /\ (pc = "for" /\ pc' # pc => pc' = "return")]_vars

\* the validator stopped at MAX_RULES with an enabled rule left over
C1_Witness ==
    /\ Done
    /\ variant = "validator"
    /\ rules_evaluated = MAX_RULES
    /\ idx <= Len(config)
    /\ config[idx].enabled

\* C2 as stated: with max_rules = N and N + 5 rules, all enabled, the poc
\* pass returns rules_evaluated = N and has evaluated rules 1..N.
C2_Original ==
    (/\ Done
     /\ variant = "poc"
     /\ EnabledCount = Len(config)
     /\ Len(config) = eval_config.max_rules + 5)
    => /\ Returned.rules_evaluated = eval_config.max_rules
       /\ evaluated = [k \in 1..eval_config.max_rules |-> k]

\* C2 amended: with max_rules = N and N + 5 rules, all enabled, of which
\* at most max_regex_rules of the first N use regex, a pass in which no time
\* check exceeds the budget returns rules_evaluated = N, has evaluated
\* rules 1..N, and every error names one of them.
C2_FirstN ==
    (/\ Done
     /\ variant = "poc"
     /\ EnabledCount = Len(config)
     /\ Len(config) = eval_config.max_rules + 5
     /\ RegexRank(eval_config.max_rules) <= eval_config.max_regex_rules
     /\ ~TimedOut)
    => /\ Returned.rules_evaluated = eval_config.max_rules
       /\ evaluated = [k \in 1..eval_config.max_rules |-> k]
       /\ \A e \in Range(Returned.errors) :
              \E k \in 1..eval_config.max_rules : e = ValidationError(config[k])

C2_Witness ==
    /\ Done
    /\ variant = "poc"
    /\ EnabledCount = Len(config)
    /\ eval_config.max_rules >= 2
    /\ Len(config) = eval_config.max_rules + 5
    /\ RegexRank(eval_config.max_rules) <= eval_config.max_regex_rules
    /\ UsesRegex(1)
    /\ ~TimedOut
    /\ Returned.rules_evaluated = eval_config.max_rules
    /\ Len(Returned.errors) >= 1

\* the enabled rules the regex quota lets through / holds back
WithinQuota ==
    {k \in DOMAIN config :
        config[k].enabled /\ (UsesRegex(k) => RegexRank(k) <= eval_config.max_regex_rules)}
OverQuota ==
    {k \in DOMAIN config :
        config[k].enabled /\ UsesRegex(k) /\ RegexRank(k) > eval_config.max_regex_rules}

\* C3: in a pass that visits every rule (max_rules does not end it, no time
\* check fails) the evaluated rules are the enabled non-regex rules and the
\* first max_regex_rules enabled regex-using rules, the later regex-using
\* rules are skipped, and the skip of a rule leaves rules_evaluated and
\* errors alone and moves on to the next rule.
C3_RegexQuotaSkips ==
    /\ []((Done /\ idx > Len(config) /\ ~TimedOut) =>
            /\ evaluated = Ascending(WithinQuota)
            /\ skipped = Ascending(OverQuota)
            /\ Returned.rules_evaluated = Cardinality(WithinQuota))
    /\ [][skipped' # skipped =>
            /\ rules_evaluated' = rules_evaluated
            /\ errors' = errors
            /\ evaluated' = evaluated
            /\ pc' = "for"
            /\ idx' = idx + 1]_vars

\* a regex rule was evaluated, a later one skipped, and a non-regex rule
\* after the skipped one was evaluated
C3_Witness ==
    /\ Done
    /\ idx > Len(config)
    /\ ~TimedOut
    /\ eval_config.max_regex_rules >= 1
    /\ \E a, b, c \in DOMAIN config :
        /\ a < b /\ b < c
        /\ UsesRegex(a) /\ a \in Range(evaluated)
        /\ b \in Range(skipped)
        /\ ~UsesRegex(c) /\ c \in Range(evaluated)

IsEnabled(rule) == rule.enabled

\* C4: the step that meets a disabled rule changes no counter and no
\* error, and the pass returns what the pass over the configuration without
\* its disabled rules returns (under the same outcomes of the time checks).
C4_DisabledInert ==
    /\ [](Done =>
            Returned = evaluate_rules_with_config(variant, SelectSeq(config, IsEnabled),
                                                  cart, eval_config, OkPolls))
    /\ [][(pc = "enabled" /\ ~config[idx].enabled /\ pc' # pc) =>
            /\ errors' = errors
            /\ rules_evaluated' = rules_evaluated
            /\ regex_count' = regex_count
            /\ history' = history
            /\ pc' = "for"]_vars

\* a disabled regex rule that matches the cart was passed over, the regex
\* quota was later used up by enabled rules, and the pass returned
C4_Witness ==
    /\ Done
    /\ \E d \in 1..(idx - 1) :
        /\ d <= Len(config)
        /\ ~config[d].enabled
        /\ UsesRegex(d)
        /\ evaluate_rule(variant, config[d], cart)
        /\ \E k \in Range(evaluated) : k > d /\ UsesRegex(k)
    /\ regex_count = eval_config.max_regex_rules
    /\ eval_config.max_regex_rules >= 1

\* C5: the clock is read only at the time check, which comes once before
\* each evaluation of a rule, after the regex check of that rule; time that
\* passes while a rule is being evaluated stops nothing; a check that reads
\* more than time_budget ends the pass: no rule is evaluated afterwards and
\* the errors and rules_evaluated returned are those accumulated before it.
C5_TimeBudget ==
    /\ [](TimedOut => pc \in {"return", "done"})
    /\ [](polls.n = IF variant = "poc"
                     THEN Len(evaluated) + (IF pc = "evaluate" \/ TimedOut THEN 1 ELSE 0)
                     ELSE 0)
    /\ [][/\ (polls' # polls =>
                /\ pc = "time"
                /\ polls' = [n |-> polls.n + 1, idx |-> idx, read |-> elapsed]
                /\ idx \notin Range(skipped)
                /\ <<errors', rules_evaluated', evaluated'>> = <<errors, rules_evaluated, evaluated>>
                /\ (elapsed > eval_config.time_budget_ms => pc' = "return"))
          /\ (evaluated' # evaluated /\ variant = "poc" =>
                /\ polls.idx = idx
                /\ polls.read <= eval_config.time_budget_ms
                /\ polls' = polls)
          /\ (TimedOut =>
                <<errors', rules_evaluated', evaluated'>> = <<errors, rules_evaluated, evaluated>>)
          /\ (TimedOut /\ pc = "return" /\ pc' = "done" =>
                Returned' = [errors |-> errors, rules_evaluated |-> rules_evaluated])]_vars

\* the budget ran out while a rule was being evaluated: that rule was
\* finished, the next check ended the pass with rules left over
C5_Witness ==
    /\ Done
    /\ TimedOut
    /\ Len(evaluated) >= 1
    /\ Len(Returned.errors) >= 1
    /\ idx <= Len(config)
    /\ polls.idx = idx

\* C6: every evaluation of a rule appends one entry
\* (rule.id, rule.error_message) when the rule's condition tree is true of
\* the cart and nothing otherwise, and adds one to rules_evaluated either
\* way; nothing else touches errors; so the errors returned are, in
\* declaration order, those of the evaluated rules that matched.  The rule
\* cart.total > 100 alone yields one error with its message on a total of
\* 150 and none on a total of 50.
C6_ErrorsAreMatches ==
    /\ [](rules_evaluated = Len(evaluated) /\ Len(errors) <= rules_evaluated)
    /\ [][/\ (evaluated' # evaluated =>
                /\ evaluated' = Append(evaluated, idx)
                /\ (evaluated # <<>> => evaluated[Len(evaluated)] < idx)
                /\ errors' = IF evaluate_rule(variant, config[idx], cart)
                             THEN Append(errors, [rule_id |-> config[idx].id,
                                                  message |-> config[idx].error_message])
                             ELSE errors
                /\ rules_evaluated' = rules_evaluated + 1)
          /\ (evaluated' = evaluated =>
                errors' = errors /\ rules_evaluated' = rules_evaluated)]_vars
    /\ [](Done => /\ Returned.errors = ErrorsOf(evaluated)
                  /\ Returned.rules_evaluated = Len(evaluated))
    /\ []((Done /\ config = MkConfig(<<TplTotal>>) /\ eval_config.max_rules >= 1 /\ ~TimedOut) =>
            Returned.errors = IF cart.total = Num(150, 0)
                              THEN <<[rule_id |-> "1", message |-> "Total too high"]>>
                              ELSE <<>>)

\* two rules evaluated, only the second matched
C6_Witness ==
    /\ Done
    /\ Len(evaluated) = 2
    /\ ~evaluate_rule(variant, config[evaluated[1]], cart)
    /\ Returned.errors = <<ValidationError(config[evaluated[2]])>>
    /\ Returned.rules_evaluated = 2

\* the run on the same inputs during which the clock does not advance
UntimedRun ==
    evaluate_rules_with_config(variant, config, cart, eval_config, Len(config) + 1)

\* C15 as stated: any two runs on the same config, record and guardrails
\* return the same errors and rules_evaluated; so every run returns what
\* the run in which no time passes returns.
C15_Original == Done => Returned = UntimedRun

\* C15 amended: the errors and rules_evaluated returned are determined by
\* the config, the record, the guardrails and the number of time checks
\* that read a time within the budget; two runs in which the same number
\* of checks pass (always so in the validator, which reads no clock) return
\* the same, whatever times they read and report.
C15_Deterministic ==
    Done => /\ Returned = evaluate_rules_with_config(variant, config, cart, eval_config,
                                                     OkPolls)
            /\ (~TimedOut => Returned = UntimedRun)
            /\ result[2].execution_time_ms \in 0..MaxElapsed

\* a poc run whose second time check failed: it returned the one error
\* found before it, fewer than the untimed run on the same inputs
C15_Witness ==
    /\ Done
    /\ variant = "poc"
    /\ TimedOut
    /\ polls.n = 2
    /\ Len(Returned.errors) = 1
    /\ Len(UntimedRun.errors) > 1

\* ------------------------------------------------------------------------
\* A single leaf: evaluate_condition and compare on their own
\* ------------------------------------------------------------------------
\* leaf = [call, pc, condition, field_value, compared, result]: which entry
\* point was called ("evaluate_condition" resolves the field first, "compare"
\* is handed a FieldValue), where the call stands, the Condition, the
\* resolved field (an Option), whether compare was invoked, and the bool
\* returned.

S_us == <<"u","s">>
S_box == <<"b","o","x">>
S_po_box == <<"p","o","_","b","o","x">>
S_BadPattern == <<"(">>
S_Box == <<"B","o","x">>
S_vip == <<"v","i","p">>
S_vi == <<"v","i">>
S_gold == <<"g","o","l","d">>
S_Wholesale == <<"W","h","o","l","e","s","a","l","e">>
S_Phone == <<"(","5","5","5",")">>

\* the addresses of test_po_box_patterns that the documentation of po_box
\* names
S_PO_Box_456 == <<"P",".","O","."," ","B","o","x"," ","4","5","6">>
S_P_O_Box_789 == <<"P"," ","O"," ","B","o","x"," ","7","8","9">>
S_PostOfficeBox101 == <<"P","o","s","t"," ","O","f","f","i","c","e"," ","B","o","x"," ","1","0","1">>
S_BoxwoodLane == <<"B","o","x","w","o","o","d"," ","L","a","n","e">>

PoBoxAddresses == {S_PoBox123, S_PO_Box_456, S_P_O_Box_789, S_PostOfficeBox101}
OtherAddresses == {S_MainStreet, S_BoxwoodLane}

\* a string in other letter cases: all upper, all lower, every letter
\* switched
upper_char(c) ==
    IF \E k \in DOMAIN LowerChars : LowerChars[k] = c
    THEN UpperChars[CHOOSE k \in DOMAIN LowerChars : LowerChars[k] = c]
    ELSE c
switch_char(c) == IF lower_char(c) = c THEN upper_char(c) ELSE lower_char(c)
LetterCases(str) ==
    {str, to_lowercase(str), [k \in DOMAIN str |-> upper_char(str[k])],
     [k \in DOMAIN str |-> switch_char(str[k])]}

AddressSamples == UNION {LetterCases(a) : a \in PoBoxAddresses \cup OtherAddresses}

LeafFields ==
    {"cart.total", "customer.tags", "shipping_address.address1",
     "shipping_address.province", "invalid.field", "cart", "cart.total.amount"}

Literals ==
    {JString(S_us), JString(S_box), JString(S_po_box), JString(S_BadPattern),
     JNumber(Num(100, 0)), JNumber(Num(150, 0)), JBool(TRUE), JNull,
     JArray(<<>>), JArray(<<JString(S_us), JNumber(Num(150, 0))>>),
     JString(S_Box), JString(S_vip), JString(S_vi), JString(S_gold),
     JNumber(Num(100, 1)), JNumber(Num(101, 0)), JArray(<<JNumber(Num(100, 1))>>)}

\* FieldValue has no Bool variant in the validator
FieldValues(v) ==
    {FvString(S_US), FvString(S_PoBox123), FvNumber(Num(150, 0)), FvNumber(Num(50, 0)),
     FvStringArray(<<S_VIP>>), FvStringArray(<<>>), FvString(S_Phone),
     FvNumber(Num(100, 0)), FvStringArray(<<S_VIP, S_Wholesale>>)}
    \cup (IF v = "poc" THEN {FvBool(TRUE), FvBool(FALSE)} ELSE {})

LeafConditions ==
    [field : LeafFields, operator : Operators, value : Literals, is_preset : BOOLEAN]

InitLeaf ==
    /\ variant \in {"poc", "validator"}
    /\ config = <<>>
    /\ eval_config = DefaultEvaluatorConfig
    /\ pc = "leaf"
    /\ idx = 1
    /\ errors = <<>>
    /\ rules_evaluated = 0
    /\ regex_count = 0
    /\ elapsed = 0
    /\ result = None
    /\ evaluated = <<>>
    /\ skipped = <<>>
    /\ polls = [n |-> 0, idx |-> 0, read |-> 0]
    /\ walk = WalkIdle
    /\ presets = PresetsUninit
    /\ callers = <<>>
    /\ metafield = None
    /\ input_cart = None
    /\ output = None
    /\ \/ /\ cart \in Carts
          /\ \E c \in LeafConditions :
                leaf = [call |-> "evaluate_condition", pc |-> "start", condition |-> c,
                        field_value |-> None, compared |-> FALSE, result |-> FALSE]
       \/ /\ cart = CartHigh
          /\ \E c \in {x \in LeafConditions : x.field = "cart.total"},
                fv \in FieldValues(variant) :
                leaf = [call |-> "compare", pc |-> "compare", condition |-> c,
                        field_value |-> Some(fv), compared |-> FALSE, result |-> FALSE]
       \/ /\ cart = CartHigh
          /\ \E a \in AddressSamples :
                leaf = [call |-> "compare", pc |-> "compare",
                        condition |-> Address1IsPoBox[2],
                        field_value |-> Some(FvString(a)), compared |-> FALSE,
                        result |-> FALSE]

\* evaluate_condition: the field lookup, with the early return on None
LeafResolve ==
    /\ leaf.pc = "start"
    /\ LET field_value == resolve(variant, cart, leaf.condition.field)
       IN  leaf' = IF field_value = None
                   THEN [leaf EXCEPT !.pc = "done", !.result = FALSE]
                   ELSE [leaf EXCEPT !.pc = "compare", !.field_value = field_value]
    /\ UNCHANGED <<inputs, statics, host, pc, idx, errors, rules_evaluated, regex_count, elapsed,
                   result, history, walk>>

\* the call of compare
LeafCompare ==
    /\ leaf.pc = "compare"
    /\ leaf' = [leaf EXCEPT
                  !.pc = "done",
                  !.compared = TRUE,
                  !.result = compare(variant, leaf.field_value[2], leaf.condition.operator,
                                     leaf.condition.value, leaf.condition.is_preset)]
    /\ UNCHANGED <<inputs, statics, host, pc, idx, errors, rules_evaluated, regex_count, elapsed,
                   result, history, walk>>

NextLeaf == LeafResolve \/ LeafCompare

SpecLeaf == InitLeaf /\ [][NextLeaf]_vars

\* the paths each extractor knows
PocPaths ==
    {"cart.total", "cart.subtotal", "cart.quantity", "cart.total_weight",
     "customer.tags", "shipping_address.address1", "shipping_address.address2",
     "shipping_address.city", "shipping_address.province",
     "shipping_address.province_code", "shipping_address.country",
     "shipping_address.country_code", "shipping_address.zip"}
ValidatorPaths == PocPaths \ {"shipping_address.province", "shipping_address.country"}
KnownPaths == IF variant = "poc" THEN PocPaths ELSE ValidatorPaths

LeafDone == leaf.pc = "done"
Compared == LeafDone /\ leaf.compared
FieldTag == leaf.field_value[2][1]
LiteralTag == leaf.condition.value[1]

\* C7: a Condition whose field is not a known path evaluates to false for
\* every operator, literal and cart, and compare is not invoked.
C7_UnknownFieldFalse ==
    (leaf.call = "evaluate_condition" /\ leaf.condition.field \notin KnownPaths) =>
        /\ leaf.pc # "compare"
        /\ LeafDone => (~leaf.result /\ ~leaf.compared)
        /\ ~evaluate_condition(variant, leaf.condition, cart)

\* NOT_IN on a path the validator does not know (the poc does)
C7_Witness ==
    /\ LeafDone
    /\ leaf.call = "evaluate_condition"
    /\ variant = "validator"
    /\ leaf.condition.field = "shipping_address.province"
    /\ leaf.condition.operator = "NotIn"
    /\ LiteralTag = "Array"

\* C8: Equals and NotEquals return false when the variant of the field
\* value and the type of the literal differ.
C8_EqualsMismatchFalse ==
    (/\ Compared
     /\ leaf.condition.operator \in {"Equals", "NotEquals"}
     /\ FieldTag # LiteralTag)
    => ~leaf.result

\* C9: In and NotIn return false when the literal is not an array and when
\* the field value is neither a String nor a Number.
C9_InShapeFalse ==
    (/\ Compared
     /\ leaf.condition.operator \in {"In", "NotIn"}
     /\ (LiteralTag # "Array" \/ FieldTag \notin {"String", "Number"}))
    => ~leaf.result

\* the operand types each operator accepts
Compatible(operator, field_tag, literal_tag) ==
    CASE operator \in {"Contains", "NotContains"} ->
            field_tag \in {"String", "StringArray"} /\ literal_tag = "String"
      [] operator \in {"StartsWith", "EndsWith"} ->
            field_tag = "String" /\ literal_tag = "String"
      [] operator \in {"GreaterThan", "GreaterThanOrEqual", "LessThan", "LessThanOrEqual"} ->
            field_tag = "Number" /\ literal_tag = "Number"
      [] OTHER -> TRUE

\* C10: Contains, NotContains, StartsWith, EndsWith and the four ordering
\* operators return false when the field value or the literal has a type
\* the operator does not accept.
C10_IncompatibleFalse ==
    (/\ Compared
     /\ leaf.condition.operator \in
            {"Contains", "NotContains", "StartsWith", "EndsWith", "GreaterThan",
             "GreaterThanOrEqual", "LessThan", "LessThanOrEqual"}
     /\ ~Compatible(leaf.condition.operator, FieldTag, LiteralTag))
    => ~leaf.result

\* ------------------------------------------------------------------------
\* Properties of the RegexMatch, Equals, In and Contains leaves
\* ------------------------------------------------------------------------

FieldIs(tag) == FieldTag = tag
LiteralIs(tag) == LiteralTag = tag
Operand == leaf.field_value[2][2]
Literal == leaf.condition.value[2]

RegisteredPreset(name) == \E k \in DOMAIN list_preset_patterns : name = list_preset_patterns[k]

\* C11: a RegexMatch leaf with is_preset true on a String field returns
\* false for every field string when the literal is not the name of a
\* registered preset.
C11_UnknownPresetFalse ==
    (/\ Compared
     /\ leaf.condition.operator = "RegexMatch"
     /\ leaf.condition.is_preset
     /\ FieldIs("String") /\ LiteralIs("String")
     /\ ~RegisteredPreset(Literal))
    => ~leaf.result

\* C12: a RegexMatch leaf with is_preset false whose literal does not
\* compile as a pattern returns false for every String field value, in
\* both variants.
C12_BadPatternFalse ==
    (/\ Compared
     /\ leaf.condition.operator = "RegexMatch"
     /\ ~leaf.condition.is_preset
     /\ FieldIs("String") /\ LiteralIs("String")
     /\ regex_new(Literal)[1] = "Err")
    => ~leaf.result

\* C18: on a String field and a string literal, Equals returns the same
\* in the poc comparator and in the validator comparator, and so does
\* NotEquals.
C18_SameCasePolicy ==
    (/\ Compared
     /\ leaf.condition.operator \in {"Equals", "NotEquals"}
     /\ FieldIs("String") /\ LiteralIs("String"))
    => /\ leaf.result = compare("poc", leaf.field_value[2], leaf.condition.operator,
                                 leaf.condition.value, leaf.condition.is_preset)
       /\ leaf.result = compare("validator", leaf.field_value[2], leaf.condition.operator,
                                 leaf.condition.value, leaf.condition.is_preset)

\* two f64 that differ by decimal round-trip noise (at most one tick of
\* 1e-10) / that differ in their whole units
RoundTripNoise(a, b) == a.w = b.w /\ (a.t - b.t) \in -1..1
Material(a, b) == a.w # b.w

\* C19: Equals on a Number field and a numeric literal is true when the
\* two differ by round-trip noise (100.0 and 100.0000000001) and false when
\* they differ materially (100.0 and 101.0); In on a Number field is true
\* when an element of the array is within that noise of the field.
C19_NumericTolerance ==
    /\ (/\ Compared
        /\ leaf.condition.operator = "Equals"
        /\ FieldIs("Number") /\ LiteralIs("Number"))
       => /\ RoundTripNoise(Operand, Literal) => leaf.result
          /\ Material(Operand, Literal) => ~leaf.result
    /\ (/\ Compared
        /\ leaf.condition.operator = "In"
        /\ FieldIs("Number") /\ LiteralIs("Array"))
       => ((\E k \in DOMAIN Literal :
               /\ Literal[k][1] = "Number"
               /\ RoundTripNoise(Operand, Literal[k][2])) => leaf.result)

\* the same letters up to case, position by position
SameIgnoringCase(a, b) ==
    /\ Len(a) = Len(b)
    /\ \A k \in DOMAIN a : lower_char(a[k]) = lower_char(b[k])

\* p occurs in s at offset i, up to case
OccursAt(s, p, i) ==
    /\ i + Len(p) <= Len(s)
    /\ \A k \in DOMAIN p : lower_char(s[i + k]) = lower_char(p[k])

\* C20: Contains on a String field is true exactly when the literal occurs
\* in the field up to case ("PO Box 123" contains "box"); on a StringArray
\* field it is true exactly when an element equals the literal up to case
\* (<<"VIP", "Wholesale">> contains "vip", <<"VIP">> contains neither "gold"
\* nor "vi").
C20_ContainsDispatch ==
    (/\ Compared
     /\ leaf.condition.operator = "Contains"
     /\ LiteralIs("String"))
    => /\ FieldIs("String") =>
            leaf.result = (\E i \in 0..Len(Operand) : OccursAt(Operand, Literal, i))
       /\ FieldIs("StringArray") =>
            leaf.result = (\E k \in DOMAIN Operand : SameIgnoringCase(Operand[k], Literal))
       /\ (leaf.field_value[2] = FvString(S_PoBox123) /\ Literal = S_box) => leaf.result
       /\ (leaf.field_value[2] = FvStringArray(<<S_VIP, S_Wholesale>>) /\ Literal = S_vip) =>
            leaf.result
       /\ (leaf.field_value[2] = FvStringArray(<<S_VIP>>) /\ Literal \in {S_gold, S_vi}) =>
            ~leaf.result

\* a string list was asked for a literal that is a proper part of one of
\* its elements, and for one that equals an element up to case
C20_Witness ==
    /\ Compared
    /\ leaf.condition.operator = "Contains"
    /\ FieldIs("StringArray") /\ LiteralIs("String")
    /\ Operand = <<S_VIP, S_Wholesale>>
    /\ Literal = S_vip
    /\ leaf.result

\* ------------------------------------------------------------------------
\* The driver with the recursion of the Group Evaluator made explicit
\* ------------------------------------------------------------------------
\* rule_uses_regex, evaluate_group and evaluate_criterion call themselves on
\* nested groups.  Here every call is a frame on walk.stack and every step
\* of the iterators (.all, .any) is a step of the state machine.

\* width of the root group and of a nested group in the exhaustively
\* enumerated trees
MaxWidth == 2
MaxInner == 1
\* nesting depth of the deepest tree
ChainDepth == 6

CartTenPoBox == Cart(Num(10, 0), 1, <<>>, Address(S_PoBox123, S_US))
TreeCarts == {CartHigh, CartLowPlain, CartTenPoBox}

TplEmptyAnd ==
    [enabled |-> TRUE, error_message |-> "Empty and", conditions |-> Group("And", <<>>)]
TplEmptyOr ==
    [enabled |-> TRUE, error_message |-> "Empty or", conditions |-> Group("Or", <<>>)]
TplNestedEmptyAnd ==
    [enabled |-> TRUE, error_message |-> "Nested empty and",
     conditions |-> Group("Or", << <<"Group", Group("And", << <<"Group", Group("And", <<>>)>> >>)>> >>)]
TplNestedEmptyOr ==
    [enabled |-> TRUE, error_message |-> "Nested empty or",
     conditions |-> Group("And", << <<"Group", Group("Or", << <<"Group", Group("Or", <<>>)>> >>)>> >>)]

\* rules with a leaf that cannot be evaluated as written
TplUnknownField ==
    [enabled |-> TRUE, error_message |-> "Unknown field",
     conditions |-> Group("And", <<Cond("invalid.field", "Equals", JString(<<"U","S">>), FALSE)>>)]
TplTypeMismatch ==
    [enabled |-> TRUE, error_message |-> "Type mismatch",
     conditions |-> Group("And", <<Cond("cart.total", "GreaterThan", JString(<<"U","S">>), FALSE)>>)]
TplUnknownPreset ==
    [enabled |-> TRUE, error_message |-> "Unknown preset",
     conditions |-> Group("And", <<Cond("shipping_address.address1", "RegexMatch",
                                        JString(<<"n","o","_","s","u","c","h">>), TRUE)>>)]
TplBadPattern ==
    [enabled |-> TRUE, error_message |-> "Bad pattern",
     conditions |-> Group("And", <<Cond("shipping_address.address1", "RegexMatch",
                                        JString(<<"(">>), FALSE)>>)]

MalformedTemplates == {TplUnknownField, TplTypeMismatch, TplUnknownPreset, TplBadPattern}

\* d groups nested in one another around one leaf
RECURSIVE Chain(_, _)
Chain(d, criterion) ==
    IF d <= 1 THEN Group("And", <<criterion>>)
    ELSE Group("And", << <<"Group", Chain(d - 1, criterion)>> >>)

TplChain ==
    [enabled |-> TRUE, error_message |-> "Deep", conditions |-> Chain(ChainDepth, TotalOver100)]

\* the only RegexMatch leaf at the bottom of the deepest nesting
TplChainRegex ==
    [enabled |-> TRUE, error_message |-> "Deep regex",
     conditions |-> Chain(ChainDepth, Address1IsPoBox)]

HandTemplates ==
    {TplEmptyAnd, TplEmptyOr, TplNestedEmptyAnd, TplNestedEmptyOr, TplNested, TplChain,
     TplChainRegex}
    \cup MalformedTemplates
Followers == {TplTotal, TplPoBox, TplEmptyAnd}

HandConfigs ==
    {MkConfig(<<a>>) : a \in HandTemplates}
    \cup {MkConfig(<<a, b>>) : a \in HandTemplates, b \in Followers}

\* every tree of at most MaxWidth criteria at the root, each a leaf or a
\* group of at most MaxInner copies of a leaf; on CartTenPoBox the first
\* leaf is false and the second true
TreeLeaves == {TotalOver100, CountryIsUS}
InnerGroups ==
    {Group(op, [k \in 1..n |-> l]) : op \in {"And", "Or"}, l \in TreeLeaves,
                                     n \in 0..MaxInner}
RootCriteria == TreeLeaves \cup {<<"Group", g>> : g \in InnerGroups}
SmallTrees ==
    {Group(op, cs) : op \in {"And", "Or"},
                     cs \in UNION {[1..n -> RootCriteria] : n \in 0..MaxWidth}}
SmallTreeConfigs ==
    {MkConfig(<<[enabled |-> TRUE, error_message |-> "Blocked", conditions |-> g]>>) :
        g \in SmallTrees}

TreeGuardrails ==
    {DefaultEvaluatorConfig} \cup {e \in EvalConfigs : e.max_rules = MaxMaxRules}

TreeScenarios ==
    {[variant |-> "poc", config |-> c, eval_config |-> e, cart |-> crt] :
        c \in HandConfigs, e \in TreeGuardrails, crt \in TreeCarts}
    \cup {[variant |-> "validator", config |-> c, eval_config |-> ValidatorGuardrails,
           cart |-> crt] :
        c \in HandConfigs, crt \in TreeCarts}
    \cup {[variant |-> "validator", config |-> c, eval_config |-> ValidatorGuardrails,
           cart |-> CartTenPoBox] :
        c \in SmallTreeConfigs}

InitTrees ==
    /\ \E sc \in TreeScenarios :
        /\ variant = sc.variant
        /\ config = sc.config
        /\ eval_config = sc.eval_config
        /\ cart = sc.cart
    /\ pc = "for"
    /\ idx = 1
    /\ errors = <<>>
    /\ rules_evaluated = 0
    /\ regex_count = 0
    /\ elapsed = 0
    /\ result = None
    /\ evaluated = <<>>
    /\ skipped = <<>>
    /\ polls = [n |-> 0, idx |-> 0, read |-> 0]
    /\ leaf = LeafIdle
    /\ walk = WalkIdle
    /\ presets = PresetsUninit
    /\ callers = <<>>
    /\ metafield = None
    /\ input_cart = None
    /\ output = None

\* the frame of the call that runs, and the stack once it has returned
Top == walk.stack[Len(walk.stack)]
Pop(stack) == SubSeq(stack, 1, Len(stack) - 1)

\* a call of fn on a group
Call(fn, group) ==
    [fn |-> fn, stack |-> <<[group |-> group, k |-> 1]>>, ret |-> None, visited |-> <<>>]

\* mutant of stops: every group stops at the first true criterion
stops_at_first_true(fn, operator, b) == b

\* Iterator::all returns false at the first false item, Iterator::any
\* returns true at the first true item; rule_uses_regex uses any
stops(fn, operator, b) ==
    IF fn = "evaluate_group" /\ operator = "And" THEN ~b ELSE b

\* what all / any return when the items run out
exhausted_value(fn, operator) == fn = "evaluate_group" /\ operator = "And"

\* the running call takes b as the value of its criterion k: it returns b
\* when the iterator stops there, and moves to the next criterion otherwise
Feed(b) ==
    IF stops(walk.fn, Top.group.operator, b)
    THEN [walk EXCEPT !.stack = Pop(walk.stack), !.ret = Some(b)]
    ELSE [walk EXCEPT !.stack[Len(walk.stack)].k = Top.k + 1, !.ret = None]

Walking == pc \in {"scan", "walk"} /\ walk.stack # <<>>

driver == <<pc, idx, errors, rules_evaluated, regex_count, elapsed, result>>

\* if rule_uses_regex(&rule.conditions): the call
ScanBegin ==
    /\ pc = "regex"
    /\ pc' = "scan"
    /\ walk' = Call("rule_uses_regex", config[idx].conditions)
    /\ UNCHANGED <<inputs, statics, host, idx, errors, rules_evaluated, regex_count, elapsed,
                   result, history, leaf>>

\* mutant of WalkCondition: the field lookup is unwrapped, so that a leaf
\* on an unknown field has no continuation
WalkCondition_unwraps ==
    /\ Walking
    /\ walk.ret = None
    /\ Top.k <= Len(Top.group.criteria)
    /\ Top.group.criteria[Top.k][1] = "Condition"
    /\ walk.fn = "evaluate_group" =>
            resolve(variant, cart, Top.group.criteria[Top.k][2].field) # None
    /\ LET c == Top.group.criteria[Top.k][2]
           b == IF walk.fn = "evaluate_group"
                THEN evaluate_condition(variant, c, cart)
                ELSE c.operator = "RegexMatch"
       IN  walk' = [Feed(b) EXCEPT !.visited = Append(walk.visited, c)]
    /\ UNCHANGED <<inputs, statics, host, driver, history, leaf>>

\* the Criterion::Condition arm of the match on a criterion
IsCondition(criterion) == criterion[1] = "Condition"

\* mutant of WalkCondition: evaluate_group evaluates the leaves that follow
\* the deciding leaf in its group as well, and returns the same value
WalkCondition_eager ==
    /\ Walking
    /\ walk.ret = None
    /\ Top.k <= Len(Top.group.criteria)
    /\ Top.group.criteria[Top.k][1] = "Condition"
    /\ LET c == Top.group.criteria[Top.k][2]
           b == IF walk.fn = "evaluate_group"
                THEN evaluate_condition(variant, c, cart)
                ELSE c.operator = "RegexMatch"
           later == SelectSeq(SubSeq(Top.group.criteria, Top.k + 1, Len(Top.group.criteria)),
                              IsCondition)
           also == IF walk.fn = "evaluate_group" /\ stops(walk.fn, Top.group.operator, b)
                   THEN [j \in DOMAIN later |-> later[j][2]]
                   ELSE <<>>
       IN  walk' = [Feed(b) EXCEPT !.visited = Append(walk.visited, c) \o also]
    /\ UNCHANGED <<inputs, statics, host, driver, history, leaf>>

\* the criterion the iterator is at is a Condition: evaluate_condition in
\* evaluate_group, the test for RegexMatch in rule_uses_regex
WalkCondition ==
    /\ Walking
    /\ walk.ret = None
    /\ Top.k <= Len(Top.group.criteria)
    /\ Top.group.criteria[Top.k][1] = "Condition"
    /\ LET c == Top.group.criteria[Top.k][2]
           b == IF walk.fn = "evaluate_group"
                THEN evaluate_condition(variant, c, cart)
                ELSE c.operator = "RegexMatch"
       IN  walk' = [Feed(b) EXCEPT !.visited = Append(walk.visited, c)]
    /\ UNCHANGED <<inputs, statics, host, driver, history, leaf>>

\* mutant of WalkDescend: rule_uses_regex looks at the leaves of the root
\* only and takes a nested group for a criterion without regex
WalkDescend_root_only ==
    /\ Walking
    /\ walk.ret = None
    /\ Top.k <= Len(Top.group.criteria)
    /\ Top.group.criteria[Top.k][1] = "Group"
    /\ walk' = IF walk.fn = "rule_uses_regex"
               THEN Feed(FALSE)
               ELSE [walk EXCEPT
                       !.stack = Append(walk.stack,
                                        [group |-> Top.group.criteria[Top.k][2], k |-> 1])]
    /\ UNCHANGED <<inputs, statics, host, driver, history, leaf>>

\* the criterion the iterator is at is a Group: the recursive call
WalkDescend ==
    /\ Walking
    /\ walk.ret = None
    /\ Top.k <= Len(Top.group.criteria)
    /\ Top.group.criteria[Top.k][1] = "Group"
    /\ walk' = [walk EXCEPT
                  !.stack = Append(walk.stack,
                                   [group |-> Top.group.criteria[Top.k][2], k |-> 1])]
    /\ UNCHANGED <<inputs, statics, host, driver, history, leaf>>

\* mutant of WalkExhausted: a group whose criteria run out returns false
WalkExhausted_false ==
    /\ Walking
    /\ walk.ret = None
    /\ Top.k > Len(Top.group.criteria)
    /\ walk' = [walk EXCEPT !.stack = Pop(walk.stack), !.ret = Some(FALSE)]
    /\ UNCHANGED <<inputs, statics, host, driver, history, leaf>>

\* the criteria of the running call have run out: all returns true, any
\* returns false
WalkExhausted ==
    /\ Walking
    /\ walk.ret = None
    /\ Top.k > Len(Top.group.criteria)
    /\ walk' = [walk EXCEPT
                  !.stack = Pop(walk.stack),
                  !.ret = Some(exhausted_value(walk.fn, Top.group.operator))]
    /\ UNCHANGED <<inputs, statics, host, driver, history, leaf>>

\* a recursive call has returned into the iterator of its caller
WalkResume ==
    /\ Walking
    /\ walk.ret # None
    /\ walk' = Feed(walk.ret[2])
    /\ UNCHANGED <<inputs, statics, host, driver, history, leaf>>

\* Guardrail 2 once rule_uses_regex has returned
ScanEnd ==
    /\ pc = "scan"
    /\ walk.stack = <<>>
    /\ walk.ret # None
    /\ IF walk.ret[2]
       THEN /\ regex_count' = regex_count + 1
            /\ IF regex_count + 1 > eval_config.max_regex_rules
               THEN /\ idx' = idx + 1
                    /\ pc' = "for"
                    /\ skipped' = Append(skipped, idx)
               ELSE /\ idx' = idx
                    /\ pc' = IF variant = "poc" THEN "time" ELSE "evaluate"
                    /\ skipped' = skipped
       ELSE /\ regex_count' = regex_count
            /\ idx' = idx
            /\ pc' = IF variant = "poc" THEN "time" ELSE "evaluate"
            /\ skipped' = skipped
    /\ walk' = WalkIdle
    /\ UNCHANGED <<inputs, statics, host, errors, rules_evaluated, elapsed, result, evaluated,
                   polls, leaf>>

\* if evaluate_rule(rule, cart): the call of evaluate_group on the root
EvalBegin ==
    /\ pc = "evaluate"
    /\ pc' = "walk"
    /\ walk' = Call("evaluate_group", config[idx].conditions)
    /\ UNCHANGED <<inputs, statics, host, idx, errors, rules_evaluated, regex_count, elapsed,
                   result, history, leaf>>

\* evaluate_rule has returned: errors.push on true, rules_evaluated += 1
EvalEnd ==
    /\ pc = "walk"
    /\ walk.stack = <<>>
    /\ walk.ret # None
    /\ errors' = IF walk.ret[2] THEN Append(errors, ValidationError(config[idx]))
                 ELSE errors
    /\ rules_evaluated' = rules_evaluated + 1
    /\ evaluated' = Append(evaluated, idx)
    /\ idx' = idx + 1
    /\ pc' = "for"
    /\ walk' = WalkIdle
    /\ UNCHANGED <<inputs, statics, host, regex_count, elapsed, result, skipped, polls, leaf>>

\* the steps of the driver itself
StepTrees ==
    \/ ForEnd
    \/ GuardMaxRules
    \/ CheckEnabled
    \/ ScanBegin
    \/ WalkCondition
    \/ WalkDescend
    \/ WalkExhausted
    \/ WalkResume
    \/ ScanEnd
    \/ GuardTime
    \/ EvalBegin
    \/ EvalEnd
    \/ Return

NextTrees == Tick \/ StepTrees

SpecTrees == InitTrees /\ [][NextTrees]_vars

\* the driver runs on a thread that is scheduled until it returns
FairSpecTrees == SpecTrees /\ WF_vars(StepTrees)

\* ------------------------------------------------------------------------
\* Properties of the Group Evaluator
\* ------------------------------------------------------------------------

\* the running call is evaluate_group on a group without criteria
AtEmptyGroup ==
    /\ walk.fn = "evaluate_group"
    /\ Walking
    /\ walk.ret = None
    /\ Top.group.criteria = <<>>

\* C13: a call of evaluate_group on a group with no criteria returns true
\* for AND and false for OR, at the root and at every depth; the
\* evaluation of a rule whose root is an empty AND appends the error of the
\* rule whatever the record, that of a rule whose root is an empty OR
\* appends nothing, and so do the rules that reach an empty AND / an empty
\* OR through two levels of nesting.
C13_EmptyGroups ==
    /\ [][(AtEmptyGroup /\ walk' # walk) =>
            /\ walk'.stack = Pop(walk.stack)
            /\ walk'.ret = Some(Top.group.operator = "And")]_vars
    /\ [][(evaluated' # evaluated /\ config[idx].conditions.criteria = <<>>) =>
            errors' = IF config[idx].conditions.operator = "And"
                      THEN Append(errors, [rule_id |-> config[idx].id,
                                           message |-> config[idx].error_message])
                      ELSE errors]_vars
    /\ [][/\ (evaluated' # evaluated /\ config[idx].conditions = TplNestedEmptyAnd.conditions) =>
                errors' = Append(errors, [rule_id |-> config[idx].id,
                                          message |-> "Nested empty and"])
          /\ (evaluated' # evaluated /\ config[idx].conditions = TplNestedEmptyOr.conditions) =>
                errors' = errors]_vars
    /\ []((Done /\ 1 \in Range(evaluated) /\ config[1].conditions.criteria = <<>>) =>
            ((\E e \in Range(Returned.errors) : e.rule_id = config[1].id)
                <=> (config[1].conditions.operator = "And")))

\* an empty AND two levels below the root has returned true to its caller
C13_Witness ==
    /\ pc = "walk"
    /\ config[idx].conditions = TplNestedEmptyAnd.conditions
    /\ Len(walk.stack) = 2
    /\ walk.ret = Some(TRUE)

\* C14: every call of evaluate_group, at every depth, returns the
\* conjunction (AND) or the disjunction (OR) of the values of its criteria,
\* a criterion being a leaf or a nested group; the rule
\* OR[total > 100, AND[country == US, REGEX_MATCH po_box on address1]] on
\* the US record with a PO Box address and total 10 tests the three leaves
\* in order and yields its one error.
C14_GroupLogic ==
    /\ [][(walk.fn = "evaluate_group" /\ Walking /\ Len(walk'.stack) < Len(walk.stack)) =>
            LET g == Top.group
                vals == [k \in DOMAIN g.criteria |->
                            evaluate_criterion(variant, g.criteria[k], cart)]
            IN  /\ walk'.ret # None
                /\ g.operator = "And" => walk'.ret[2] = (\A k \in DOMAIN vals : vals[k])
                /\ g.operator = "Or" => walk'.ret[2] = (\E k \in DOMAIN vals : vals[k])]_vars
    /\ [][(/\ evaluated' # evaluated
           /\ config[idx].conditions = TplNested.conditions
           /\ cart = CartTenPoBox) =>
            /\ errors' = Append(errors, [rule_id |-> config[idx].id, message |-> "Blocked"])
            /\ walk.visited = <<TotalOver100[2], CountryIsUS[2], Address1IsPoBox[2]>>]_vars
    /\ []((/\ Done
           /\ config = MkConfig(<<TplNested>>)
           /\ cart = CartTenPoBox
           /\ 1 \in Range(evaluated)) =>
            Returned.errors = <<[rule_id |-> "1", message |-> "Blocked"]>>)

\* the nested rule alone, on the record with total 10, returned one error
C14_Witness ==
    /\ Done
    /\ variant = "poc"
    /\ config = MkConfig(<<TplNested>>)
    /\ cart = CartTenPoBox
    /\ Returned.errors = <<[rule_id |-> "1", message |-> "Blocked"]>>
    /\ Returned.rules_evaluated = 1

\* C16: the recursion depth of evaluate_group / evaluate_criterion and of
\* rule_uses_regex stays under a fixed bound however deeply the groups of
\* the configuration are nested: the calls never go as deep as the nesting
\* of the deepest tree.
C16_DepthBounded == Len(walk.stack) < ChainDepth

Malformed(rule) == \E t \in MalformedTemplates : rule.conditions = t.conditions

\* C17: every pass returns an EvaluationResult: it reaches its return, it
\* is never left without a next step before that, and the result holds a
\* count and at most that many errors; the evaluation of a rule on an
\* unknown field, with a type mismatch, an unknown preset name or a
\* malformed ad hoc pattern is an ordinary evaluation (counted, at most its
\* own error appended, on to the next rule), and the rule after it is
\* evaluated unless a guardrail holds it back.
C17_Total ==
    /\ <>Done
    /\ [](~Done => ENABLED StepTrees)
    /\ [](Done => /\ result # None
                  /\ result[2].rules_evaluated \in 0..Len(config)
                  /\ Len(result[2].errors) <= result[2].rules_evaluated)
    /\ [][(evaluated' # evaluated /\ Malformed(config[idx])) =>
            /\ pc' = "for"
            /\ idx' = idx + 1
            /\ rules_evaluated' = rules_evaluated + 1
            /\ errors' \in {errors, Append(errors, [rule_id |-> config[idx].id,
                                                    message |-> config[idx].error_message])}]_vars
    /\ []((/\ Done
           /\ Len(config) = 2
           /\ Malformed(config[1])
           /\ eval_config.max_rules >= 2
           /\ ~TimedOut
           /\ 2 \notin Range(skipped)) =>
            2 \in Range(evaluated))

\* a rule with a malformed ad hoc pattern was evaluated, then the rule
\* after it, which matched
C17_Witness ==
    /\ Done
    /\ variant = "poc"
    /\ Len(config) = 2
    /\ config[1].conditions = TplBadPattern.conditions
    /\ evaluated = <<1, 2>>
    /\ Returned.errors = <<ValidationError(config[2])>>

\* ------------------------------------------------------------------------
\* The preset registry under concurrent lookups
\* ------------------------------------------------------------------------
\* Each preset is a lazy_static: a cell that runs Regex::new under a
\* std::sync::Once at its first dereference.  get_preset_pattern
\* dereferences the cell of the arm that matches and no other.

MaxCallers == 2
MaxCalls == 2

\* the names looked up: the registered ones and names that are not
LookupNames == Range(list_preset_patterns) \cup {"nonexistent", "PO_BOX", "po_box "}

\* the first caller looks any of the names up, the callers that race with
\* it look up one registered name and one that is not
NamesOf(t) == IF t = 1 THEN LookupNames ELSE {"po_box", "nonexistent"}

\* a caller is [pc, name, got, left, waited]: where it stands in
\* get_preset_pattern, the name it asked for, the Option it got, how many
\* calls it has left, and whether it found the cell being initialised
CallerIdle == [pc |-> "idle", name |-> "", got |-> None, left |-> MaxCalls, waited |-> FALSE]

InitRegistry ==
    /\ variant = "poc"
    /\ config = <<>>
    /\ cart = CartHigh
    /\ eval_config = DefaultEvaluatorConfig
    /\ pc = "registry"
    /\ idx = 1
    /\ errors = <<>>
    /\ rules_evaluated = 0
    /\ regex_count = 0
    /\ elapsed = 0
    /\ result = None
    /\ evaluated = <<>>
    /\ skipped = <<>>
    /\ polls = [n |-> 0, idx |-> 0, read |-> 0]
    /\ leaf = LeafIdle
    /\ walk = WalkIdle
    /\ presets = PresetsUninit
    /\ \E n \in 1..MaxCallers : callers = [t \in 1..n |-> CallerIdle]
    /\ metafield = None
    /\ input_cart = None
    /\ output = None

rest == <<inputs, pc, idx, errors, rules_evaluated, regex_count, elapsed, result,
          history, leaf, walk, host>>

\* get_preset_pattern(name): the match on the name; a registered name goes
\* on to dereference its static, any other name returns None
Lookup(t) ==
    /\ pc = "registry"
    /\ callers[t].pc \in {"idle", "returned"}
    /\ callers[t].left > 0
    /\ \E name \in NamesOf(t) :
        callers' = [callers EXCEPT ![t] =
                      IF get_preset_pattern(name) # None
                      THEN [pc |-> "deref", name |-> name, got |-> None,
                            left |-> @.left - 1, waited |-> FALSE]
                      ELSE [pc |-> "returned", name |-> name, got |-> None,
                            left |-> @.left - 1, waited |-> FALSE]]
    /\ UNCHANGED <<rest, presets>>

\* mutant of DerefFirst: the cell is not marked as being initialised
DerefFirst_unsynchronised(t) ==
    /\ pc = "registry"
    /\ callers[t].pc = "deref"
    /\ presets[callers[t].name].state = "uninit"
    /\ callers' = [callers EXCEPT ![t].pc = "init"]
    /\ UNCHANGED <<rest, presets>>

\* Once::call_once on a cell nobody has touched: this caller initialises it
DerefFirst(t) ==
    /\ pc = "registry"
    /\ callers[t].pc = "deref"
    /\ presets[callers[t].name].state = "uninit"
    /\ presets' = [presets EXCEPT ![callers[t].name].state = "running"]
    /\ callers' = [callers EXCEPT ![t].pc = "init"]
    /\ UNCHANGED rest

\* the initialiser: Regex::new(..).expect(..) on the pattern of the cell
Compile(t) ==
    /\ pc = "registry"
    /\ callers[t].pc = "init"
    /\ presets' = [presets EXCEPT ![callers[t].name] =
                      [state |-> "ready",
                       regex |-> get_preset_pattern(callers[t].name),
                       compiled |-> @.compiled + 1]]
    /\ callers' = [callers EXCEPT ![t].pc = "deref"]
    /\ UNCHANGED rest

\* Once::call_once while another caller runs the initialiser: this caller
\* is parked until the cell is ready
DerefWait(t) ==
    /\ pc = "registry"
    /\ callers[t].pc = "deref"
    /\ presets[callers[t].name].state = "running"
    /\ ~callers[t].waited
    /\ callers' = [callers EXCEPT ![t].waited = TRUE]
    /\ UNCHANGED <<rest, presets>>

\* the cell is ready: the reference to its Regex is returned
DerefReady(t) ==
    /\ pc = "registry"
    /\ callers[t].pc = "deref"
    /\ presets[callers[t].name].state = "ready"
    /\ callers' = [callers EXCEPT ![t].pc = "returned",
                                  ![t].got = presets[callers[t].name].regex]
    /\ UNCHANGED <<rest, presets>>

NextRegistry ==
    \E t \in DOMAIN callers :
        \/ Lookup(t)
        \/ DerefFirst(t)
        \/ Compile(t)
        \/ DerefWait(t)
        \/ DerefReady(t)

SpecRegistry == InitRegistry /\ [][NextRegistry]_vars

\* ------------------------------------------------------------------------
\* Properties of the regex quota, of the short circuit and of the loop
\* ------------------------------------------------------------------------

\* the Condition leaves of a tree, at every depth
RECURSIVE Leaves(_)
Leaves(group) ==
    UNION {IF group.criteria[k][1] = "Condition"
           THEN {group.criteria[k][2]}
           ELSE Leaves(group.criteria[k][2]) : k \in DOMAIN group.criteria}

HasRegexLeaf(group) == \E c \in Leaves(group) : c.operator = "RegexMatch"

\* the deepest nesting at which a RegexMatch leaf of the tree sits (0 when
\* there is none)
RECURSIVE RegexDepth(_)
RegexDepth(group) ==
    LET ds == {IF group.criteria[k][1] = "Condition"
               THEN (IF group.criteria[k][2].operator = "RegexMatch" THEN 1 ELSE 0)
               ELSE (IF HasRegexLeaf(group.criteria[k][2])
                     THEN 1 + RegexDepth(group.criteria[k][2]) ELSE 0) :
               k \in DOMAIN group.criteria}
    IN  IF ds = {} THEN 0 ELSE CHOOSE d \in ds : \A e \in ds : e <= d

\* C21: the call of rule_uses_regex on the tree of a rule returns true
\* exactly when the tree has a RegexMatch leaf at some depth; the regex
\* counter goes up by one exactly then, and a rule without such a leaf is
\* never skipped by the regex guardrail.
C21_RegexAtAnyDepth ==
    /\ [][(pc = "scan" /\ pc' # "scan") =>
            LET uses == HasRegexLeaf(config[idx].conditions)
            IN  /\ walk.ret = Some(uses)
                /\ regex_count' = regex_count + (IF uses THEN 1 ELSE 0)
                /\ ~uses => skipped' = skipped]_vars
    /\ [](\A k \in Range(skipped) : HasRegexLeaf(config[k].conditions))
    /\ [](Done => \A k \in Range(skipped) \cup Range(evaluated) :
                    UsesRegex(k) = HasRegexLeaf(config[k].conditions))

\* the rule whose only RegexMatch leaf sits at the bottom of the deepest
\* nesting was skipped by the regex guardrail, and the rule without regex
\* after it was evaluated
C21_Witness ==
    /\ Done
    /\ Len(config) = 2
    /\ config[1].conditions = TplChainRegex.conditions
    /\ RegexDepth(config[1].conditions) = ChainDepth
    /\ ~HasRegexLeaf(config[2].conditions)
    /\ skipped = <<1>>
    /\ evaluated = <<2>>

\* the names the library documents
NinePresets ==
    {"po_box", "uk_postcode", "us_zip", "ca_postal", "email_basic", "us_phone",
     "profanity", "numeric_only", "suspicious_chars"}

Returned_(t) == callers[t].pc = "returned"

\* C22: a lookup returns a pattern exactly for the nine preset names and
\* None for every other name; the names list_preset_patterns returns are
\* these nine, each once, and each resolves.
C22_ExactlyNine ==
    /\ \A t \in DOMAIN callers :
           Returned_(t) => ((callers[t].got # None) <=> (callers[t].name \in NinePresets))
    /\ {n \in LookupNames : get_preset_pattern(n) # None} = NinePresets
    /\ Range(list_preset_patterns) = NinePresets
    /\ Len(list_preset_patterns) = 9
    /\ \A k \in DOMAIN list_preset_patterns :
           get_preset_pattern(list_preset_patterns[k]) # None

\* one caller got the pattern of the last preset of the list, another got
\* None for a name that is not registered
C22_Witness ==
    /\ Len(callers) = 2
    /\ Returned_(1) /\ callers[1].name = "suspicious_chars"
    /\ callers[1].got = Some(SUSPICIOUS_CHARS)
    /\ Returned_(2) /\ callers[2].name = "nonexistent"
    /\ callers[2].got = None

\* C23: whatever the interleaving of the lookups, every preset is compiled
\* at most once, a cell that holds its Regex is never written again, no
\* cell is added or removed, and every lookup of a name returns the same
\* Option as every other lookup of that name.
C23_CompiledOnce ==
    /\ [](\A n \in DOMAIN presets : presets[n].compiled <= 1)
    /\ [](DOMAIN presets = Range(list_preset_patterns))
    /\ [][\A n \in DOMAIN presets :
            /\ presets[n].state = "ready" => presets'[n] = presets[n]
            /\ presets'[n].compiled >= presets[n].compiled]_vars
    /\ [](\A t \in DOMAIN callers : \A u \in DOMAIN callers :
            (Returned_(t) /\ Returned_(u) /\ callers[t].name = callers[u].name) =>
                callers[t].got = callers[u].got)
    /\ [](\A t \in DOMAIN callers :
            Returned_(t) => callers[t].got = get_preset_pattern(callers[t].name))

\* two callers raced on the first use of po_box: one compiled it, the
\* other found the cell being initialised and waited, and both got the
\* one Regex
C23_Witness ==
    /\ Len(callers) = 2
    /\ Returned_(1) /\ Returned_(2)
    /\ callers[1].name = "po_box" /\ callers[2].name = "po_box"
    /\ callers[2].waited
    /\ presets["po_box"].compiled = 1
    /\ callers[1].got = callers[2].got
    /\ callers[1].got # None

\* C24: the preset po_box, as the regex PO_BOX of the poc and as
\* check_preset("po_box") of the validator, matches "PO Box 123",
\* "P.O. Box 456", "P O Box 789" and "Post Office Box 101" in upper, lower
\* and switched letter case as well as written, and matches neither
\* "123 Main Street" nor "Boxwood Lane" in any of these cases.
C24_PoBoxSamples ==
    (/\ Compared
     /\ leaf.condition.operator = "RegexMatch"
     /\ leaf.condition.is_preset
     /\ FieldIs("String") /\ LiteralIs("String")
     /\ Literal = S_po_box)
    => /\ (\E a \in PoBoxAddresses : Operand \in LetterCases(a)) => leaf.result
       /\ (\E a \in OtherAddresses : Operand \in LetterCases(a)) => ~leaf.result

\* the validator matched "pOST oFFICE bOX 101"
C24_Witness ==
    /\ Compared
    /\ variant = "validator"
    /\ leaf.condition = Address1IsPoBox[2]
    /\ leaf.field_value[2] = FvString(<<"p","O","S","T"," ","o","F","F","I","C","E"," ","b","O","X"," ","1","0","1">>)
    /\ leaf.result

\* C25: no step of a pass writes to the configuration or to the record:
\* every rule and every record field has, at each step and when the pass
\* has returned, the value it had when the pass began, whichever guardrail
\* ended the pass.
C25_InputsUnchanged ==
    /\ [][config' = config /\ cart' = cart]_vars
    /\ [][\A k \in DOMAIN config :
            /\ config'[k].id = config[k].id
            /\ config'[k].enabled = config[k].enabled
            /\ config'[k].error_message = config[k].error_message
            /\ config'[k].conditions = config[k].conditions]_vars
    /\ [](Done => /\ \A k \in DOMAIN config : config[k].id = ToString(k)
                  /\ cart \in Carts)

\* a pass that the rule cap ended after a match has returned
C25_Witness ==
    /\ Done
    /\ variant = "poc"
    /\ Len(config) > eval_config.max_rules
    /\ Returned.rules_evaluated = eval_config.max_rules
    /\ Len(Returned.errors) >= 1
    /\ config[1].error_message # ""

\* the leaves a short-circuiting evaluation of the criteria k.. of a group
\* tests, in the order it tests them
RECURSIVE TestedFrom(_, _, _, _)
TestedFrom(v, group, crt, k) ==
    IF k > Len(group.criteria) THEN <<>>
    ELSE LET c == group.criteria[k]
             here == IF c[1] = "Condition" THEN <<c[2]>> ELSE TestedFrom(v, c[2], crt, 1)
             b == evaluate_criterion(v, c, crt)
         IN  IF (group.operator = "And" /\ ~b) \/ (group.operator = "Or" /\ b)
             THEN here
             ELSE here \o TestedFrom(v, group, crt, k + 1)

\* C26: a call of evaluate_group that returns before its criteria run out
\* returns at the first criterion that is false (AND) or true (OR), every
\* criterion before it having been evaluated with the other value; the
\* iterator of a call moves one criterion at a time; and the leaves tested
\* in the evaluation of a rule are exactly, and in this order, the leaves
\* up to the deciding criterion of each group.  The rule
\* OR[total > 100, AND[country == US, po_box]] on a record with total 150
\* tests the first leaf only.
C26_ShortCircuit ==
    /\ [][(walk.fn = "evaluate_group" /\ Walking /\ Len(walk'.stack) < Len(walk.stack)
             /\ Top.k <= Len(Top.group.criteria)) =>
            /\ walk'.ret = Some(Top.group.operator = "Or")
            /\ evaluate_criterion(variant, Top.group.criteria[Top.k], cart)
                    = (Top.group.operator = "Or")
            /\ \A j \in 1..(Top.k - 1) :
                   evaluate_criterion(variant, Top.group.criteria[j], cart)
                       = (Top.group.operator = "And")]_vars
    /\ [][(Walking /\ pc' = pc /\ Len(walk'.stack) = Len(walk.stack)) =>
            walk'.stack[Len(walk.stack)].k \in {Top.k, Top.k + 1}]_vars
    /\ [][(pc = "walk" /\ pc' # "walk") =>
            walk.visited = TestedFrom(variant, config[idx].conditions, cart, 1)]_vars
    /\ [][(pc = "walk" /\ pc' # "walk" /\ config[idx].conditions = TplNested.conditions
             /\ cart = CartHigh) =>
            walk.visited = <<TotalOver100[2]>>]_vars

\* the evaluation of OR[total > 100, AND[..]] on the record with total 150
\* has returned true after testing the first leaf, the nested AND untouched
C26_Witness ==
    /\ pc = "walk"
    /\ walk.stack = <<>>
    /\ walk.ret = Some(TRUE)
    /\ config[idx].conditions = TplNested.conditions
    /\ cart = CartHigh
    /\ walk.visited = <<TotalOver100[2]>>

\* the enabled rules the loop has visited: those before the rule it is at,
\* and that rule once it has passed the enabled check
VisitedEnabled ==
    {j \in 1..(idx - 1) : j <= Len(config) /\ config[j].enabled}
    \cup (IF pc \in {"regex", "time", "evaluate"} THEN {idx} ELSE {})

\* the errors of the rules at the indices S, in declaration order
AllErrorsOf(S) ==
    LET a == Ascending(S) IN [k \in DOMAIN a |-> ValidationError(config[a[k]])]

RegexEvaluated == Cardinality({k \in Range(evaluated) : UsesRegex(k)})

Opposite(operator) ==
    CASE operator = "Equals" -> "NotEquals"
      [] operator = "NotEquals" -> "Equals"
      [] operator = "Contains" -> "NotContains"
      [] operator = "NotContains" -> "Contains"
      [] operator = "In" -> "NotIn"
      [] operator = "NotIn" -> "In"

\* C28: on every resolved field value and every literal, the result of
\* compare with Equals, Contains or In is the negation of its result with
\* NotEquals, NotContains or NotIn on the same operands, in both variants.
C28_NegatedPairs ==
    (/\ Compared
     /\ leaf.condition.operator \in
            {"Equals", "NotEquals", "Contains", "NotContains", "In", "NotIn"})
    => leaf.result = ~compare(variant, leaf.field_value[2],
                              Opposite(leaf.condition.operator),
                              leaf.condition.value, leaf.condition.is_preset)

\* NotIn matched a string field against a literal that is not an array
C28_Witness ==
    /\ Compared
    /\ leaf.condition.operator = "NotIn"
    /\ FieldIs("String")
    /\ LiteralIs("Number")
    /\ leaf.result

\* the last rule the loop of the running pass took from the iterator
Visited == IF idx > Len(config) THEN Len(config) ELSE idx

\* C29: a pass of the poc under the default guardrails in which no time
\* check exceeds the budget visits, skips and evaluates the rules that the
\* validator's evaluate_rules visits, skips and evaluates on the same
\* configuration and record, and returns the same rules_evaluated; and so
\* does a pass of the validator compared with the poc's evaluate_rules.
C29_SameAsValidator ==
    /\ (Done /\ variant = "poc" /\ eval_config = DefaultEvaluatorConfig /\ ~TimedOut) =>
            LET v == evaluate_rules(config, cart)
            IN  /\ evaluated = v.evaluated
                /\ skipped = v.skipped
                /\ Visited = v.visited
                /\ Returned.rules_evaluated = v.rules_evaluated
    /\ (Done /\ variant = "validator") =>
            LET p == evaluate_rules_poc(config, cart, Len(config) + 1)
            IN  /\ evaluated = p.evaluated
                /\ skipped = p.skipped
                /\ Visited = p.visited
                /\ Returned.rules_evaluated = p.rules_evaluated

\* a pass of the poc under the default guardrails over more than 100 rules,
\* all with regex: it evaluated 30 rules and skipped the others, as the
\* validator does
C29_Witness ==
    /\ Done
    /\ variant = "poc"
    /\ eval_config = DefaultEvaluatorConfig
    /\ ~TimedOut
    /\ Len(config) > MAX_RULES
    /\ Returned.rules_evaluated = MAX_REGEX_RULES
    /\ Len(skipped) = Len(config) - MAX_REGEX_RULES
    /\ evaluated = evaluate_rules(config, cart).evaluated

\* ------------------------------------------------------------------------
\* The Shopify Function entry point of the validator: process_input
\* ------------------------------------------------------------------------

\* the longest rules array of the metafield documents
MaxDocRules == 2

\* serde_json: a JSON object, as the function from its keys to its values
JObject(o) == <<"Object", o>>

\* the JSON text of a condition group, standing for the ConditionGroup it
\* deserialises to
JConditions(group) == <<"Conditions", group>>

\* text that is not JSON
NotJson == <<"Malformed">>

Ok(v) == <<"Ok", v>>
Err == <<"Err">>

Has(o, key, kind) == key \in DOMAIN o /\ o[key][1] = kind
HasOpt(o, key, kind) == key \notin DOMAIN o \/ o[key][1] = kind

\* #[derive(Deserialize)] struct Rule: id, name, error_message and
\* conditions are required; complexity and enabled have defaults
RuleParses(r) ==
    /\ r[1] = "Object"
    /\ Has(r[2], "id", "String")
    /\ Has(r[2], "name", "String")
    /\ HasOpt(r[2], "complexity", "Number")
    /\ HasOpt(r[2], "enabled", "Bool")
    /\ Has(r[2], "error_message", "String")
    /\ Has(r[2], "conditions", "Conditions")

RuleOf(r) ==
    [id |-> r[2].id[2], name |-> r[2].name[2],
     complexity |-> IF "complexity" \in DOMAIN r[2] THEN r[2].complexity[2].w ELSE 0,
     enabled |-> IF "enabled" \in DOMAIN r[2] THEN r[2].enabled[2] ELSE TRUE,
     error_message |-> r[2].error_message[2],
     conditions |-> r[2].conditions[2]]

\* serde_json::from_str::<RulesConfig>: version and rules are required,
\* total_complexity has a default, unknown keys are ignored; the result is
\* config.rules
from_str(text) ==
    IF text[1] # "Object" THEN Err
    ELSE IF ~Has(text[2], "version", "String") THEN Err
    ELSE IF ~HasOpt(text[2], "total_complexity", "Number") THEN Err
    ELSE IF ~Has(text[2], "rules", "Array") THEN Err
    ELSE IF \E k \in DOMAIN text[2].rules[2] : ~RuleParses(text[2].rules[2][k]) THEN Err
    ELSE Ok([k \in DOMAIN text[2].rules[2] |-> RuleOf(text[2].rules[2][k])])

digit(c) == CHOOSE n \in 0..9 : ToString(n) = c

RECURSIVE digits_value(_)
digits_value(str) ==
    IF str = <<>> THEN 0
    ELSE 10 * digits_value(SubSeq(str, 1, Len(str) - 1)) + digit(str[Len(str)])

RECURSIVE pow10(_)
pow10(n) == IF n = 0 THEN 1 ELSE 10 * pow10(n - 1)

AllDigits(str) == str # <<>> /\ \A k \in DOMAIN str : str[k] \in Digits

\* str::parse::<f64>().unwrap_or(0.0) on the amounts Shopify sends: a
\* decimal of at most ten fraction digits parses to its value, and text
\* without a digit is an error and gives 0.0
parse_f64_or_zero(str) ==
    LET dots == {k \in DOMAIN str : str[k] = "."}
    IN  IF dots = {} /\ AllDigits(str) THEN Num(digits_value(str), 0)
        ELSE IF Cardinality(dots) = 1
        THEN LET d == CHOOSE k \in dots : TRUE
                 whole == SubSeq(str, 1, d - 1)
                 frac == SubSeq(str, d + 1, Len(str))
             IN  IF AllDigits(whole) /\ AllDigits(frac) /\ Len(frac) <= 10
                 THEN Num(digits_value(whole), digits_value(frac) * pow10(10 - Len(frac)))
                 ELSE Num(0, 0)
        ELSE Num(0, 0)

unwrap_or_default(opt) == IF opt = None THEN S_Empty ELSE opt[2]

\* cart.lines.iter().map(|l| l.quantity as u32).sum(): the cast leaves the
\* quantities of the model, which are not negative, as they are
RECURSIVE sum_quantity(_)
sum_quantity(lines) ==
    IF lines = <<>> THEN 0
    ELSE lines[1].quantity + sum_quantity(Tail(lines))

\* build_cart_input: amounts parsed, quantities summed, the address of the
\* first delivery group with absent parts as empty strings; no weight, no
\* tags.  (province and country are fields of the poc's Address only; the
\* validator never reads them.)
build_cart_input(c) ==
    LET da == IF c.delivery_groups = <<>> THEN None
              ELSE c.delivery_groups[1].delivery_address
    IN  [total |-> parse_f64_or_zero(c.cost.total_amount.amount),
         subtotal |-> parse_f64_or_zero(c.cost.subtotal_amount.amount),
         quantity |-> sum_quantity(c.lines),
         total_weight |-> Num(0, 0),
         customer_tags |-> <<>>,
         shipping_address |->
            IF da = None THEN Address(S_Empty, S_Empty)
            ELSE [address1 |-> unwrap_or_default(da[2].address1),
                  address2 |-> unwrap_or_default(da[2].address2),
                  city |-> unwrap_or_default(da[2].city),
                  province |-> S_Empty,
                  province_code |-> unwrap_or_default(da[2].province_code),
                  country |-> S_Empty,
                  country_code |-> unwrap_or_default(da[2].country_code),
                  zip |-> unwrap_or_default(da[2].zip)]]

\* the metafield documents of the model
RuleDoc(rule) ==
    JObject([id |-> JString(rule.id), name |-> JString(rule.name),
             complexity |-> JNumber(Num(rule.complexity, 0)),
             enabled |-> JBool(rule.enabled),
             error_message |-> JString(rule.error_message),
             conditions |-> JConditions(rule.conditions)])

\* a rule written without the keys that have defaults
RuleDocBare(rule) ==
    JObject([id |-> JString(rule.id), name |-> JString(rule.name),
             error_message |-> JString(rule.error_message),
             conditions |-> JConditions(rule.conditions)])

\* a rule without its error_message
RuleDocNoMessage(rule) ==
    JObject([id |-> JString(rule.id), name |-> JString(rule.name),
             conditions |-> JConditions(rule.conditions)])

ConfigDoc(rules) ==
    JObject([version |-> JString("1.0"), total_complexity |-> JNumber(Num(Len(rules), 0)),
             rules |-> JArray(rules)])

DocConfigs ==
    UNION {{MkConfig(t) : t \in TplSeqs(n)} : n \in 0..MaxDocRules}
    \cup {Cyclic(<<TplTotal, TplPoBox>>, MAX_RULES + 5)}

Metafields ==
    {None, Some(NotJson), Some(JNull), Some(JArray(<<>>)),
     Some(JObject([version |-> JString("1.0")])),
     Some(JObject([rules |-> JArray(<<>>)])),
     Some(JObject([version |-> JNumber(Num(1, 0)), rules |-> JArray(<<>>)])),
     Some(JObject([version |-> JString("1.0"), rules |-> JArray(<<>>)])),
     Some(JObject([version |-> JString("1.0"), rules |-> JNull])),
     Some(ConfigDoc(<<RuleDocNoMessage(MkRule(TplTotal, 1))>>)),
     Some(ConfigDoc(<<RuleDoc(MkRule(TplTotal, 1)), JNull>>)),
     Some(ConfigDoc(<<RuleDocBare(MkRule(TplTotal, 1)), RuleDocBare(MkRule(TplPoBox, 2))>>))}
    \cup {Some(ConfigDoc([k \in DOMAIN c |-> RuleDoc(c[k])])) : c \in DocConfigs}

DeliveryAddress(address1, country_code) ==
    [address1 |-> address1, address2 |-> None, city |-> None,
     province_code |-> None, country_code |-> country_code, zip |-> None]

InputCart(amount, quantities, groups) ==
    [cost |-> [total_amount |-> [amount |-> amount],
               subtotal_amount |-> [amount |-> amount]],
     lines |-> [k \in DOMAIN quantities |-> [quantity |-> quantities[k]]],
     buyer_identity |-> None,
     delivery_groups |-> [k \in DOMAIN groups |-> [delivery_address |-> groups[k]]]]

S_150_00 == <<"1","5","0",".","0","0">>
S_50 == <<"5","0">>
S_free == <<"f","r","e","e">>

InputCarts ==
    {InputCart(S_150_00, <<4, 6>>, <<Some(DeliveryAddress(Some(S_PoBox123), Some(S_US)))>>),
     InputCart(S_50, <<1>>, <<Some(DeliveryAddress(Some(S_MainStreet), Some(S_CA))),
                              Some(DeliveryAddress(Some(S_PoBox123), Some(S_US)))>>),
     InputCart(S_50, <<1>>, <<None>>),
     InputCart(S_free, <<>>, <<>>)}

\* Output { errors }
Output(errs) == [errors |-> errs]

\* FunctionError { localized_message: e.message, target: "cart" }
FunctionError(e) == [localized_message |-> e.message, target |-> "cart"]

\* main has read the Input from stdin and calls process_input
InitFunction ==
    /\ variant = "validator"
    /\ config = <<>>
    /\ cart = None
    /\ eval_config = ValidatorGuardrails
    /\ pc = "metafield"
    /\ idx = 1
    /\ errors = <<>>
    /\ rules_evaluated = 0
    /\ regex_count = 0
    /\ elapsed = 0
    /\ result = None
    /\ evaluated = <<>>
    /\ skipped = <<>>
    /\ polls = [n |-> 0, idx |-> 0, read |-> 0]
    /\ leaf = LeafIdle
    /\ walk = WalkIdle
    /\ presets = PresetsUninit
    /\ callers = <<>>
    /\ metafield \in Metafields
    /\ input_cart \in InputCarts
    /\ output = None

locals == <<idx, errors, rules_evaluated, regex_count, elapsed, result, history, leaf, walk,
            statics>>

\* match input.shop.metafield.as_ref() { None => return Output { errors: vec![] } }
NoMetafield ==
    /\ pc = "metafield"
    /\ metafield = None
    /\ output' = Some(Output(<<>>))
    /\ pc' = "exit"
    /\ UNCHANGED <<inputs, metafield, input_cart, locals>>

\* Some(metafield) => match serde_json::from_str::<RulesConfig>(&metafield.value)
\* { Ok(c) => c, Err(e) => return Output { errors: vec![] } }
ParseConfig ==
    /\ pc = "metafield"
    /\ metafield # None
    /\ LET parsed == from_str(metafield[2])
       IN  IF parsed = Err
           THEN /\ output' = Some(Output(<<>>))
                /\ pc' = "exit"
                /\ config' = config
           ELSE /\ config' = parsed[2]
                /\ pc' = "rules"
                /\ output' = output
    /\ UNCHANGED <<variant, cart, eval_config, metafield, input_cart, locals>>

\* if config.rules.is_empty() { return Output { errors: vec![] } }
NoRules ==
    /\ pc = "rules"
    /\ config = <<>>
    /\ output' = Some(Output(<<>>))
    /\ pc' = "exit"
    /\ UNCHANGED <<inputs, metafield, input_cart, locals>>

\* let cart_input = build_cart_input(&input); evaluate_rules(&config, &cart_input)
\* is entered
CallEvaluateRules ==
    /\ pc = "rules"
    /\ config # <<>>
    /\ cart' = build_cart_input(input_cart)
    /\ pc' = "for"
    /\ UNCHANGED <<variant, config, eval_config, host, locals>>

\* mutant of Convert: the errors collected in reverse
Convert_reversed ==
    /\ pc = "done"
    /\ output' = Some(Output([k \in DOMAIN result[2].errors |->
                     FunctionError(result[2].errors[Len(result[2].errors) + 1 - k])]))
    /\ pc' = "exit"
    /\ UNCHANGED <<inputs, metafield, input_cart, locals>>

\* result.errors.into_iter().map(|e| FunctionError { .. }).collect();
\* Output { errors }
Convert ==
    /\ pc = "done"
    /\ output' = Some(Output([k \in DOMAIN result[2].errors |->
                                 FunctionError(result[2].errors[k])]))
    /\ pc' = "exit"
    /\ UNCHANGED <<inputs, metafield, input_cart, locals>>

NextFunction ==
    \/ NoMetafield
    \/ ParseConfig
    \/ NoRules
    \/ CallEvaluateRules
    \/ ForEnd
    \/ GuardMaxRules
    \/ CheckEnabled
    \/ GuardRegex
    \/ EvaluateRule
    \/ Return
    \/ Convert

SpecFunction == InitFunction /\ [][NextFunction]_vars

Exited == pc = "exit"

\* the three cases in which process_input has no rules to evaluate
FailsOpen ==
    \/ metafield = None
    \/ from_str(metafield[2]) = Err
    \/ from_str(metafield[2])[2] = <<>>

\* the rule of the configuration an error was raised for
RuleOfError(e) == CHOOSE rule \in Range(config) : rule.id = e.rule_id

\* C30: when process_input has returned, its Output has no errors and no
\* rule was evaluated if the metafield is absent, does not parse as a
\* RulesConfig or parses to a config without rules; otherwise the Output has
\* one error per error of the evaluation result, in the same order, each
\* with the message of the rule it was raised for and target "cart", the
\* evaluation result being that of evaluate_rules on the parsed config and
\* the cart built from the input.
C30_FailsOpen ==
    Exited =>
        /\ output # None
        /\ IF FailsOpen
           THEN /\ output[2].errors = <<>>
                /\ result = None
                /\ evaluated = <<>>
                /\ rules_evaluated = 0
           ELSE /\ result # None
                /\ config = from_str(metafield[2])[2]
                /\ result[2].errors =
                       evaluate_rules(config, build_cart_input(input_cart)).errors
                /\ Len(output[2].errors) = Len(result[2].errors)
                /\ \A k \in DOMAIN result[2].errors :
                       /\ output[2].errors[k].localized_message = result[2].errors[k].message
                       /\ output[2].errors[k].localized_message =
                              RuleOfError(result[2].errors[k]).error_message
                       /\ output[2].errors[k].target = "cart"

\* process_input has returned two errors with different messages, for the two
\* rules of a configuration written without the optional keys
C30_Witness ==
    /\ Exited
    /\ ~FailsOpen
    /\ Len(output[2].errors) = 2
    /\ output[2].errors[1].localized_message = "Total too high"
    /\ output[2].errors[2].localized_message = "We don't ship to PO Boxes"
    /\ output[2].errors[2].target = "cart"
    /\ "enabled" \notin DOMAIN metafield[2][2].rules[2][1][2]

====
